---------------------------- MODULE Spec2Model ----------------------------
(***************************************************************************)
(* taskanov: the Store (LocalJsonBackend / GoogleBackend), its Timer State *)
(* and the TickerNotifier background thread.                               *)
(*                                                                         *)
(* Two execution contexts share one Store without a lock: the foreground   *)
(* thread (the Controller, which calls the Store and starts/stops the      *)
(* notifier) and the "bg-worker" thread (TickerNotifier._run).  Every      *)
(* statement of start_timer / stop_timer that changes a field the other    *)
(* thread reads is a step of its own; statements that touch only the       *)
(* timer document or the calendar (never read by the other thread) are     *)
(* joined to the neighbouring step.                                        *)
(***************************************************************************)
EXTENDS Integers, Sequences, FiniteSets, TLC

VARIABLES
    kind,            \* which Backend make_backend built: "localjson" | "google"
    timer_active,    \* Backend._timer_active
    timer_title,     \* Backend._timer_title
    timer_started,   \* Backend._timer_started
    timer_file,      \* timer_state.json on the medium
    calendar,        \* events inserted in the remote calendar, in order
    cache,           \* Backend._cache
    task_file,       \* tasks.json (local medium)
    remote,          \* items of the remote task lists (remote medium)
    id_index,        \* GoogleBackend._id_index (its keys; a gid splits into its pair)
    pc,              \* position of the foreground thread
    arg,             \* arguments of the Store call in progress
    stop_event,      \* TickerNotifier._stop (threading.Event)
    thr,             \* TickerNotifier._thr and the position of its _run
    actives,         \* the tuple get_active_timer is building in _run
    loops,           \* threads started by start() whose _run has not ended
    call,            \* history: the foreground Store call in progress / last returned
    prev,            \* history: the Store call that returned before it
    seen,            \* history: complete Timer States that held during the read in progress
    torn,            \* history: the tuple just read is none of them
    ui,              \* TaskTUI: the Controller's fields and the handler in progress
    twin             \* a LocalJsonBackend given the same calls, for comparison

vars == <<kind, timer_active, timer_title, timer_started, timer_file, calendar,
          cache, task_file, remote, id_index, pc, arg,
          stop_event, thr, actives, loops,
          call, prev, seen, torn, ui, twin>>

storeVars == <<cache, task_file, remote, id_index>>
timerVars == <<timer_active, timer_title, timer_started, timer_file>>
schedVars == <<stop_event, thr, actives, loops, seen, torn>>
outerVars == <<ui, twin>>

----------------------------------------------------------------------------
(* Bounds *)

\* time.time() values handed to start_timer / stop_timer: 1..MaxTs
MaxTs == 2
\* events the remote calendar accepts before an insert fails (quota)
MaxEvents == 1
\* tasks a store holds at most
MaxTasks == 2

Timestamps == 1..MaxTs
\* task titles: non-empty display strings, two that differ only in case
Titles == {"A", "a"}
Kinds == {"localjson", "google"}

----------------------------------------------------------------------------
(* Tasks *)

\* the remote task lists, in the order tasklists().list returns them; a list's
\* title is its id here
RemoteLists == <<"L1", "L2">>

\* Task.list_title of a task of the flat store: None
NoList == "None"

\* ids: a uuid4 (list = NoList) or the gid f"{list_id}::{task_id}"
Gid(list, n) == [list |-> list, n |-> n]
NoId == Gid(NoList, 0)

\* the numbers ids are drawn from; cache, document and remote lists together
\* never hold more than 2 * MaxTasks tasks
IdNumbers == 1..(2 * MaxTasks + 1)

Task(id, title, done, list_title) ==
    [id |-> id, title |-> title, done |-> done, list_title |-> list_title]

SeqToSet(q) == {q[i] : i \in 1..Len(q)}

RECURSIVE Filter(_, _)
\* [t for t in q if t.done == d]
Filter(q, d) ==
    IF q = <<>> THEN <<>>
    ELSE IF Head(q).done = d THEN <<Head(q)>> \o Filter(Tail(q), d)
    ELSE Filter(Tail(q), d)

\* list_open()
list_open == Filter(cache, FALSE)

\* list_done()
list_done == Filter(cache, TRUE)

----------------------------------------------------------------------------
(* Timer State and its document *)

\* the tuple (active, title, started)
Triple(a, t, s) == [active |-> a, title |-> t, started |-> s]

\* what get_active_timer returns when nothing interleaves
Timer == Triple(timer_active, timer_title, timer_started)

\* the cleared Timer State: False, "", 0.0
Cleared == Triple(FALSE, "", 0)

\* timer_state.json does not exist
NoFile == [state |-> "absent", active |-> FALSE, title |-> "", started |-> 0]

\* timer_state.json holds a truncated document (a write failed half way)
BadFile == [state |-> "corrupt", active |-> FALSE, title |-> "", started |-> 0]

\* json.dumps({"active": a, "title": t, "started": s})
JsonDoc(a, t, s) == [state |-> "json", active |-> a, title |-> t, started |-> s]

\* outcomes of Path.write_text: written; open() failed (document untouched);
\* the write failed after open() truncated the document
WriteOutcomes == {"ok", "unchanged", "corrupt"}

\* _save_timer with the fields (a, t, s): the document afterwards.  Every
\* exception of write_text is swallowed.
SaveTimer(a, t, s, outcome) ==
    CASE outcome = "ok"        -> JsonDoc(a, t, s)
      [] outcome = "unchanged" -> timer_file
      [] outcome = "corrupt"   -> BadFile

\* _load_timer reading the start time under a key the document does not hold
LoadTimerNoStarted(f) ==
    CASE f.state = "absent"  -> Cleared
      [] f.state = "corrupt" -> Cleared
      [] f.state = "json"    -> Triple(f.active, f.title, 0)

\* _load_timer on a freshly constructed Store (fields preset to False, "", 0.0):
\* a missing document leaves the presets, an unreadable one resets them, a
\* readable one gives bool(active), str(title), float(started).  The documents
\* this program writes hold a bool, a str and a float, which the three
\* conversions return unchanged.
LoadTimer(f) ==
    CASE f.state = "absent"  -> Cleared
      [] f.state = "corrupt" -> Cleared
      [] f.state = "json"    -> Triple(f.active, f.title, f.started)

----------------------------------------------------------------------------
(* The remote calendar *)

Interval(s, e, summary) == [start |-> s, end |-> e, summary |-> summary]

\* every interval recorded under the fallback summary
SummaryFallback(title) == "taskanov: work"

\* summary=self._timer_title or "taskanov: work"
Summary(title) == IF title = "" THEN "taskanov: work" ELSE title

\* outcomes of the remote call in _write_time_slot
SlotOutcomes == {"ok", "fail"}

\* _write_time_slot without the test of line 108
SlotResultUnchecked(s, e, outcome) ==
    IF outcome = "ok" /\ Len(calendar) < MaxEvents THEN "ok" ELSE "raise"

\* _write_time_slot(start_ts, end_ts, summary): "ok" when an event was
\* inserted, "raise" when it raised (ValueError for end_ts <= start_ts, or the
\* remote call failed; a full calendar refuses the insert)
SlotResult(s, e, outcome) ==
    IF e <= s THEN "raise"
    ELSE IF outcome = "ok" /\ Len(calendar) < MaxEvents THEN "ok"
    ELSE "raise"

----------------------------------------------------------------------------
(* History of the foreground thread's Store calls *)

\* The call in progress, or the last one returned, its arguments being in arg.
\* op: the operation; pre: the Timer State at entry; cal0: the number of
\* calendar events at entry; save: the outcome of the call's last _save_timer;
\* slot: what _write_time_slot did; raised: the call ended by an exception;
\* ret: the id of the Task it returned
NoCall == [op |-> "none", pre |-> Cleared, cal0 |-> 0, save |-> "none",
           slot |-> "none", raised |-> FALSE, ret |-> NoId]

Enter(op) ==
    [op |-> op, pre |-> Timer, cal0 |-> Len(calendar), save |-> "none",
     slot |-> "none", raised |-> FALSE, ret |-> NoId]

\* what is kept of the call that returned before the current one
NoPrev == [op |-> "none", save |-> "none"]

Returned == [op |-> call.op, save |-> call.save]

\* the events inserted since call c was entered
RecordedSince(c) == SubSeq(calendar, c.cal0 + 1, Len(calendar))

\* the complete Timer State a call leaves when it returns
Post(op, title, ts) ==
    CASE op = "start_timer" -> Triple(TRUE, title, ts)
      [] op = "stop_timer"  -> Cleared
      [] OTHER              -> Timer

\* get_active_timer on the bg-worker thread has loaded a field and not yet the last
Reading == thr \in {"rd_title", "rd_started"}

\* the complete states a read in progress has overlapped, a call (op, title, ts)
\* being entered now
Overlap(op, title, ts) == IF Reading THEN seen \cup {Post(op, title, ts)} ELSE seen

----------------------------------------------------------------------------
(* start_timer, on the foreground thread *)

\* start_timer(title, started_ts): entry and the test of line 114
CallStartTimer(title, ts) ==
    /\ pc = "idle"
    /\ arg' = [title |-> title, ts |-> ts]
    /\ pc' = IF timer_active /\ timer_title # title THEN "start_115" ELSE "start_117"
    /\ call' = Enter("start_timer")
    /\ prev' = Returned
    /\ seen' = Overlap("start_timer", title, ts)
    /\ UNCHANGED <<kind, timerVars, calendar, storeVars>>
    /\ UNCHANGED <<stop_event, thr, actives, loops, torn>>

\* lines 115-116: self._timer_active = False; self._save_timer()
StartDeactivate(outcome) ==
    /\ pc = "start_115"
    /\ timer_active' = FALSE
    /\ timer_file' = SaveTimer(FALSE, timer_title, timer_started, outcome)
    /\ call' = [call EXCEPT !.save = outcome]
    /\ pc' = "start_117"
    /\ UNCHANGED <<kind, timer_title, timer_started, calendar, storeVars, arg, prev, schedVars>>

\* line 117: self._timer_active = True
StartSetActive ==
    /\ pc = "start_117"
    /\ timer_active' = TRUE
    /\ pc' = "start_118"
    /\ UNCHANGED <<kind, timer_title, timer_started, timer_file, calendar, storeVars,
                   arg, call, prev, schedVars>>

\* line 118: self._timer_title = title
StartSetTitle ==
    /\ pc = "start_118"
    /\ timer_title' = arg.title
    /\ pc' = "start_119"
    /\ UNCHANGED <<kind, timer_active, timer_started, timer_file, calendar, storeVars,
                   arg, call, prev, schedVars>>

\* start_timer keeping the start time of a timer that is already running
StartSetStartedKeep(outcome) ==
    /\ pc = "start_119"
    /\ timer_started' = IF call.pre.active THEN timer_started ELSE arg.ts
    /\ timer_file' = SaveTimer(timer_active, timer_title, timer_started', outcome)
    /\ call' = [call EXCEPT !.save = outcome]
    /\ pc' = "idle"
    /\ UNCHANGED <<kind, timer_active, timer_title, calendar, storeVars, arg, prev, schedVars>>

\* lines 119-120: self._timer_started = float(started_ts); self._save_timer(); return.
\* started_ts is a time.time() value, a float already.
StartSetStarted(outcome) ==
    /\ pc = "start_119"
    /\ timer_started' = arg.ts
    /\ timer_file' = SaveTimer(timer_active, timer_title, arg.ts, outcome)
    /\ call' = [call EXCEPT !.save = outcome]
    /\ pc' = "idle"
    /\ UNCHANGED <<kind, timer_active, timer_title, calendar, storeVars, arg, prev, schedVars>>

----------------------------------------------------------------------------
(* stop_timer, on the foreground thread *)

\* stop_timer without the try/except around _write_time_slot: what it raises
\* ends the call before the timer is cleared
CallStopTimerNoCatch(ts, slot) ==
    /\ pc = "idle"
    /\ arg' = [title |-> "", ts |-> ts]
    /\ LET records == kind = "google" /\ timer_active /\ timer_started > 0
           result  == IF records THEN SlotResult(timer_started, ts, slot) ELSE "none"
       IN /\ calendar' = IF result = "ok"
                         THEN Append(calendar, Interval(timer_started, ts, Summary(timer_title)))
                         ELSE calendar
          /\ call' = [Enter("stop_timer") EXCEPT !.slot = result, !.raised = (result = "raise")]
          /\ pc' = IF result = "raise" THEN "idle" ELSE "stop_active"
    /\ prev' = Returned
    /\ seen' = Overlap("stop_timer", "", ts)
    /\ UNCHANGED <<kind, timerVars, storeVars>>
    /\ UNCHANGED <<stop_event, thr, actives, loops, torn>>

\* GoogleBackend.stop_timer lines 303-313: the interval is recorded when a timer
\* is active and started > 0; whatever _write_time_slot raises is swallowed.
\* LocalJsonBackend.stop_timer records nothing.
CallStopTimer(ts, slot) ==
    /\ pc = "idle"
    /\ arg' = [title |-> "", ts |-> ts]
    /\ LET records == kind = "google" /\ timer_active /\ timer_started > 0
           result  == IF records THEN SlotResult(timer_started, ts, slot) ELSE "none"
       IN /\ calendar' = IF result = "ok"
                         THEN Append(calendar, Interval(timer_started, ts, Summary(timer_title)))
                         ELSE calendar
          /\ call' = [Enter("stop_timer") EXCEPT !.slot = result]
    /\ pc' = "stop_active"
    /\ prev' = Returned
    /\ seen' = Overlap("stop_timer", "", ts)
    /\ UNCHANGED <<kind, timerVars, storeVars>>
    /\ UNCHANGED <<stop_event, thr, actives, loops, torn>>

\* self._timer_active = False
StopClearActive ==
    /\ pc = "stop_active"
    /\ timer_active' = FALSE
    /\ pc' = "stop_title"
    /\ UNCHANGED <<kind, timer_title, timer_started, timer_file, calendar, storeVars,
                   arg, call, prev, schedVars>>

\* self._timer_title = ""
StopClearTitle ==
    /\ pc = "stop_title"
    /\ timer_title' = ""
    /\ pc' = "stop_started"
    /\ UNCHANGED <<kind, timer_active, timer_started, timer_file, calendar, storeVars,
                   arg, call, prev, schedVars>>

\* self._timer_started = 0.0; self._save_timer(); return
StopClearStarted(outcome) ==
    /\ pc = "stop_started"
    /\ timer_started' = 0
    /\ timer_file' = SaveTimer(timer_active, timer_title, 0, outcome)
    /\ call' = [call EXCEPT !.save = outcome]
    /\ pc' = "idle"
    /\ UNCHANGED <<kind, timer_active, timer_title, calendar, storeVars, arg, prev, schedVars>>

----------------------------------------------------------------------------
(* Task operations: each runs on the foreground thread and touches nothing *)
(* the bg-worker thread reads                                              *)

\* tasks.json holding the list q
TaskDoc(q) == [state |-> "json", tasks |-> q]

\* tasks.json truncated by a write that failed half way
BadTaskDoc == [state |-> "corrupt", tasks |-> <<>>]

\* _write(tasks): the document afterwards; a failure raises to the caller
WriteTasks(q, outcome) ==
    CASE outcome = "ok"        -> TaskDoc(q)
      [] outcome = "unchanged" -> task_file
      [] outcome = "corrupt"   -> BadTaskDoc

\* the index of the first entry of q with this id, 0 when there is none
FirstIndex(q, id) ==
    IF \E i \in 1..Len(q) : q[i].id = id
    THEN CHOOSE i \in 1..Len(q) : q[i].id = id /\ \A j \in 1..(i - 1) : q[j].id # id
    ELSE 0

\* q without its last entry, whichever was asked for
RemoveLast(q, i) == SubSeq(q, 1, Len(q) - 1)

\* q without its i-th entry
RemoveAt(q, i) == SubSeq(q, 1, i - 1) \o SubSeq(q, i + 1, Len(q))

\* the first task of q with exactly this title, open or done, 0 when there is none
FirstAny(q, title) ==
    IF \E i \in 1..Len(q) : q[i].title = title
    THEN CHOOSE i \in 1..Len(q) :
            q[i].title = title /\ \A j \in 1..(i - 1) : q[j].title # title
    ELSE 0

\* the first open task of q with exactly this title, 0 when there is none
FirstOpen(q, title) ==
    IF \E i \in 1..Len(q) : q[i].title = title /\ ~q[i].done
    THEN CHOOSE i \in 1..Len(q) :
            /\ q[i].title = title /\ ~q[i].done
            /\ \A j \in 1..(i - 1) : ~(q[j].title = title /\ ~q[j].done)
    ELSE 0

UsedNumbers ==
    {t.id.n : t \in SeqToSet(cache)} \cup {t.id.n : t \in SeqToSet(task_file.tasks)}
        \cup {r.n : r \in SeqToSet(remote)}

\* an id no task has: uuid.uuid4(), or the id the remote service assigns
FreshNumber == CHOOSE n \in IdNumbers : n \notin UsedNumbers /\ \A m \in 1..(n - 1) : m \in UsedNumbers

\* an id that names no task anywhere: a stale reference
StaleId == Gid("stale", 0)

\* the ids toggle and delete are called with: those of the cache and of the
\* medium, and a stale one
Ids ==
    {t.id : t \in SeqToSet(cache)} \cup {t.id : t \in SeqToSet(task_file.tasks)}
        \cup {Gid(r.list, r.n) : r \in SeqToSet(remote)} \cup {StaleId}

\* the call returns (its result in ret) or raises
Return(op, title, id, ret, raised) ==
    /\ call' = [Enter(op) EXCEPT !.ret = ret, !.raised = raised]
    /\ prev' = Returned
    /\ arg' = [title |-> title, ts |-> 0]

\* refresh emptying the cache before it reads the document
LocalRefreshClears ==
    /\ pc = "idle" /\ kind = "localjson"
    /\ IF task_file.state = "json"
       THEN cache' = task_file.tasks /\ Return("refresh", "", NoId, NoId, FALSE)
       ELSE cache' = <<>> /\ Return("refresh", "", NoId, NoId, TRUE)
    /\ UNCHANGED <<kind, timerVars, calendar, task_file, remote, id_index, pc, schedVars>>

\* LocalJsonBackend.refresh: self._cache = self._read()
LocalRefresh ==
    /\ pc = "idle" /\ kind = "localjson"
    /\ IF task_file.state = "json"
       THEN cache' = task_file.tasks /\ Return("refresh", "", NoId, NoId, FALSE)
       ELSE cache' = cache /\ Return("refresh", "", NoId, NoId, TRUE)
    /\ UNCHANGED <<kind, timerVars, calendar, task_file, remote, id_index, pc, schedVars>>

\* LocalJsonBackend.toggle
LocalToggle(id, outcome) ==
    /\ pc = "idle" /\ kind = "localjson"
    /\ LET i == FirstIndex(cache, id)
       IN IF i = 0
          THEN /\ UNCHANGED <<cache, task_file>>
               /\ Return("toggle", "", id, NoId, FALSE)
          ELSE /\ cache' = [cache EXCEPT ![i].done = ~cache[i].done]
               /\ task_file' = WriteTasks(cache', outcome)
               /\ Return("toggle", "", id, id, outcome # "ok")
    /\ UNCHANGED <<kind, timerVars, calendar, remote, id_index, pc, schedVars>>

\* delete stopping the timer that names the deleted task
LocalDeleteStopsTimer(id, outcome) ==
    /\ pc = "idle" /\ kind = "localjson"
    /\ LET i == FirstIndex(cache, id)
           hit == i # 0 /\ timer_active /\ cache[i].title = timer_title
       IN /\ cache' = IF i = 0 THEN cache ELSE RemoveAt(cache, i)
          /\ task_file' = WriteTasks(cache', outcome)
          /\ timer_active' = IF hit THEN FALSE ELSE timer_active
          /\ timer_title' = IF hit THEN "" ELSE timer_title
          /\ timer_started' = IF hit THEN 0 ELSE timer_started
          /\ timer_file' = IF hit THEN JsonDoc(FALSE, "", 0) ELSE timer_file
          /\ Return("delete", "", id, IF i = 0 THEN NoId ELSE id, outcome # "ok")
    /\ UNCHANGED <<kind, calendar, remote, id_index, pc, schedVars>>

\* LocalJsonBackend.delete: the document is rewritten also when nothing matched
LocalDelete(id, outcome) ==
    /\ pc = "idle" /\ kind = "localjson"
    /\ LET i == FirstIndex(cache, id)
       IN /\ cache' = IF i = 0 THEN cache ELSE RemoveAt(cache, i)
          /\ task_file' = WriteTasks(cache', outcome)
          /\ Return("delete", "", id, IF i = 0 THEN NoId ELSE id, outcome # "ok")
    /\ UNCHANGED <<kind, timerVars, calendar, remote, id_index, pc, schedVars>>

\* LocalJsonBackend.ensure
LocalEnsure(title, outcome) ==
    /\ pc = "idle" /\ kind = "localjson"
    /\ LET i == FirstOpen(cache, title)
       IN IF i # 0
          THEN /\ UNCHANGED <<cache, task_file>>
               /\ Return("ensure", title, NoId, cache[i].id, FALSE)
          ELSE /\ Len(cache) < MaxTasks
               /\ LET nt == Task(Gid(NoList, FreshNumber), title, FALSE, NoList)
                  IN /\ cache' = Append(cache, nt)
                     /\ task_file' = WriteTasks(cache', outcome)
                     /\ Return("ensure", title, NoId, nt.id, outcome # "ok")
    /\ UNCHANGED <<kind, timerVars, calendar, remote, id_index, pc, schedVars>>

\* an item of a remote task list
Item(list, n, title, completed) ==
    [list |-> list, n |-> n, title |-> title, completed |-> completed]

\* title = t.get("title") or "(senza titolo)"
RemoteTitle(title) == IF title = "" THEN "(senza titolo)" ELSE title

RECURSIVE ItemsOf(_, _)
\* the Tasks refresh builds from the items of one list, in the list's order
ItemsOf(q, list) ==
    IF q = <<>> THEN <<>>
    ELSE IF Head(q).list = list
         THEN <<Task(Gid(list, Head(q).n), RemoteTitle(Head(q).title), Head(q).completed, list)>>
                  \o ItemsOf(Tail(q), list)
         ELSE ItemsOf(Tail(q), list)

RECURSIVE ItemsOfLists(_, _)
\* the Tasks refresh builds from the first k lists
ItemsOfLists(q, k) ==
    IF k = 0 THEN <<>> ELSE ItemsOfLists(q, k - 1) \o ItemsOf(q, RemoteLists[k])

\* the position in remote of the item a gid names, 0 when it is gone
RemoteIndex(id) ==
    IF \E i \in 1..Len(remote) : remote[i].list = id.list /\ remote[i].n = id.n
    THEN CHOOSE i \in 1..Len(remote) : remote[i].list = id.list /\ remote[i].n = id.n
    ELSE 0

\* GoogleBackend.refresh.  failAt = 0: _tasks_service() raises before the cache
\* is emptied; failAt = k in 1..Len(RemoteLists): the remote call for list k
\* raises, the cache holding the lists before it; beyond: no call raises.
GoogleRefresh(failAt) ==
    /\ pc = "idle" /\ kind = "google"
    /\ IF failAt = 0
       THEN UNCHANGED <<cache, id_index>> /\ Return("refresh", "", NoId, NoId, TRUE)
       ELSE LET k == IF failAt > Len(RemoteLists) THEN Len(RemoteLists) ELSE failAt - 1
            IN /\ cache' = ItemsOfLists(remote, k)
               /\ id_index' = {t.id : t \in SeqToSet(cache')}
               /\ Return("refresh", "", NoId, NoId, failAt <= Len(RemoteLists))
    /\ UNCHANGED <<kind, timerVars, calendar, task_file, remote, pc, schedVars>>

\* GoogleBackend.toggle: the remote item is read, patched to the other status,
\* and the cached flag is set from the patched item
GoogleToggle(id, outcome) ==
    /\ pc = "idle" /\ kind = "google"
    /\ LET r == RemoteIndex(id)
           i == FirstIndex(cache, id)
       IN IF id \notin id_index
          THEN UNCHANGED <<cache, remote>> /\ Return("toggle", "", id, NoId, FALSE)
          ELSE IF outcome # "ok" \/ r = 0
          THEN UNCHANGED <<cache, remote>> /\ Return("toggle", "", id, NoId, TRUE)
          ELSE /\ remote' = [remote EXCEPT ![r].completed = ~remote[r].completed]
               /\ IF i = 0
                  THEN cache' = cache /\ Return("toggle", "", id, NoId, FALSE)
                  ELSE /\ cache' = [cache EXCEPT ![i].done = remote'[r].completed]
                       /\ Return("toggle", "", id, id, FALSE)
    /\ UNCHANGED <<kind, timerVars, calendar, task_file, id_index, pc, schedVars>>

\* delete that looks for the task among the open ones only
GoogleDeleteOpenOnly(id, outcome) ==
    /\ pc = "idle" /\ kind = "google"
    /\ LET r == RemoteIndex(id)
           i == FirstIndex(cache, id)
           j == IF i # 0 /\ ~cache[i].done THEN i ELSE 0
       IN IF id \notin id_index
          THEN UNCHANGED <<cache, remote, id_index>> /\ Return("delete", "", id, NoId, FALSE)
          ELSE IF outcome # "ok" \/ r = 0
          THEN UNCHANGED <<cache, remote, id_index>> /\ Return("delete", "", id, NoId, TRUE)
          ELSE /\ remote' = RemoveAt(remote, r)
               /\ cache' = IF j = 0 THEN cache ELSE RemoveAt(cache, j)
               /\ id_index' = id_index \ {id}
               /\ Return("delete", "", id, IF j = 0 THEN NoId ELSE id, FALSE)
    /\ UNCHANGED <<kind, timerVars, calendar, task_file, pc, schedVars>>

\* GoogleBackend.delete
GoogleDelete(id, outcome) ==
    /\ pc = "idle" /\ kind = "google"
    /\ LET r == RemoteIndex(id)
           i == FirstIndex(cache, id)
       IN IF id \notin id_index
          THEN UNCHANGED <<cache, remote, id_index>> /\ Return("delete", "", id, NoId, FALSE)
          ELSE IF outcome # "ok" \/ r = 0
          THEN UNCHANGED <<cache, remote, id_index>> /\ Return("delete", "", id, NoId, TRUE)
          ELSE /\ remote' = RemoveAt(remote, r)
               /\ cache' = IF i = 0 THEN cache ELSE RemoveAt(cache, i)
               /\ id_index' = id_index \ {id}
               /\ Return("delete", "", id, IF i = 0 THEN NoId ELSE id, FALSE)
    /\ UNCHANGED <<kind, timerVars, calendar, task_file, pc, schedVars>>

\* _default_list_id with no preferred list: the first remote list
DefaultList == RemoteLists[1]

\* tasks().insert without a position: the service puts the new item first
RemoteInsert(list, n, title) == <<Item(list, n, title, FALSE)>> \o remote

\* GoogleBackend.ensure: the new Task carries no list_title
GoogleEnsure(title, outcome) ==
    /\ pc = "idle" /\ kind = "google"
    /\ LET i == FirstOpen(cache, title)
       IN IF i # 0
          THEN /\ UNCHANGED <<cache, remote, id_index>>
               /\ Return("ensure", title, NoId, cache[i].id, FALSE)
          ELSE IF outcome # "ok"
          THEN /\ UNCHANGED <<cache, remote, id_index>>
               /\ Return("ensure", title, NoId, NoId, TRUE)
          ELSE /\ Len(cache) < MaxTasks /\ Len(remote) < MaxTasks
               /\ LET n == FreshNumber
                      nt == Task(Gid(DefaultList, n), title, FALSE, NoList)
                  IN /\ remote' = RemoteInsert(DefaultList, n, title)
                     /\ cache' = Append(cache, nt)
                     /\ id_index' = id_index \cup {nt.id}
                     /\ Return("ensure", title, NoId, nt.id, FALSE)
    /\ UNCHANGED <<kind, timerVars, calendar, task_file, pc, schedVars>>

\* GoogleBackend.create_in_list.  outcome "ok"; "fail": tasks().insert raises;
\* "names": the item is inserted and list_lists (in _list_name_by_id) raises
\* before the Task is cached
GoogleCreateInList(title, list, outcome) ==
    /\ pc = "idle" /\ kind = "google"
    /\ IF outcome = "fail"
       THEN /\ UNCHANGED <<cache, remote, id_index>>
            /\ Return("create_in_list", title, NoId, NoId, TRUE)
       ELSE /\ Len(cache) < MaxTasks /\ Len(remote) < MaxTasks
            /\ LET n == FreshNumber
                   nt == Task(Gid(list, n), title, FALSE, list)
               IN /\ remote' = RemoteInsert(list, n, title)
                  /\ IF outcome = "names"
                     THEN /\ UNCHANGED <<cache, id_index>>
                          /\ Return("create_in_list", title, NoId, NoId, TRUE)
                     ELSE /\ cache' = Append(cache, nt)
                          /\ id_index' = id_index \cup {nt.id}
                          /\ Return("create_in_list", title, NoId, nt.id, FALSE)
    /\ UNCHANGED <<kind, timerVars, calendar, task_file, pc, schedVars>>

\* another client of the remote service (the Tasks web page, a phone) completes
\* or reopens an item: what tasks().get in toggle then reads differs from the
\* cached flag
RemoteChanged(r) ==
    /\ pc = "idle" /\ kind = "google"
    /\ r \in 1..Len(remote)
    /\ remote' = [remote EXCEPT ![r].completed = ~remote[r].completed]
    /\ UNCHANGED <<kind, timerVars, calendar, cache, task_file, id_index, pc, arg, call, prev,
                   schedVars>>
    /\ UNCHANGED outerVars

----------------------------------------------------------------------------
(* TickerNotifier *)

\* self._thr.is_alive(): thr is the position of the thread self._thr refers to;
\* at "wait" it is in self._stop.wait(self.interval) for the first time, at
\* "sent" / "failed" it is there again after notify() returned True / False
Alive == thr \in {"wait", "sent", "failed", "rd_active", "rd_title", "rd_started", "notify"}

AtWait == thr \in {"wait", "sent", "failed"}

NoMessage == [text |-> "none", title |-> ""]

\* the message of lines 33-36, chosen from the tuple read in this tick
Message(a) ==
    IF ~a.active THEN [text |-> "What are you working on? Open Taskanov", title |-> ""]
    ELSE [text |-> "Are you still working on {}?", title |-> a.title]

\* start() without the is_alive() test: a thread is started on every call
BgStartAlways ==
    /\ pc = "idle"
    /\ stop_event' = FALSE
    /\ thr' = "wait"
    /\ loops' = loops + 1
    /\ call' = Enter("start")
    /\ prev' = Returned
    /\ UNCHANGED <<kind, timerVars, calendar, storeVars, pc, arg>>
    /\ UNCHANGED <<actives, seen, torn>>

\* start(): returns at once while the thread is alive, otherwise clears the
\* event and starts a new thread
BgStart ==
    /\ pc = "idle"
    /\ IF Alive
       THEN UNCHANGED <<stop_event, thr, loops>>
       ELSE stop_event' = FALSE /\ thr' = "wait" /\ loops' = loops + 1
    /\ call' = Enter("start")
    /\ prev' = Returned
    /\ UNCHANGED <<kind, timerVars, calendar, storeVars, pc, arg>>
    /\ UNCHANGED <<actives, seen, torn>>

\* stop(), line 22: self._stop.set()
BgStopSet ==
    /\ pc = "idle"
    /\ stop_event' = TRUE
    /\ pc' = "join"
    /\ UNCHANGED <<kind, timerVars, calendar, storeVars, arg, call, prev>>
    /\ UNCHANGED <<thr, actives, loops, seen, torn>>

\* stop(), line 23: if self._thr: self._thr.join(timeout=2).  join returns when
\* the thread has finished, or after two seconds with the thread still alive.
BgStopJoin ==
    /\ pc = "join"
    /\ pc' = "idle"
    /\ UNCHANGED <<kind, timerVars, calendar, storeVars, arg, call, prev>>
    /\ UNCHANGED <<stop_event, thr, actives, loops, seen, torn>>

\* _run: self._stop.wait(self.interval) timed out with the event clear: a tick begins
ThrWaitTimeout ==
    /\ AtWait
    /\ ~stop_event
    /\ thr' = "rd_active"
    /\ UNCHANGED <<kind, timerVars, calendar, storeVars, pc, arg, call, prev>>
    /\ UNCHANGED <<stop_event, actives, loops, seen, torn>>

\* _run: wait() returned True, the loop ends and the thread with it
ThrWaitStopped ==
    /\ AtWait
    /\ stop_event
    /\ thr' = "dead"
    /\ loops' = loops - 1
    /\ UNCHANGED <<kind, timerVars, calendar, storeVars, pc, arg, call, prev>>
    /\ UNCHANGED <<stop_event, actives, seen, torn>>

\* get_active_timer reloading the timer document before it reads the fields
ThrReadActiveLoads ==
    /\ thr = "rd_active"
    /\ timer_active' = LoadTimer(timer_file).active
    /\ timer_title' = LoadTimer(timer_file).title
    /\ timer_started' = LoadTimer(timer_file).started
    /\ actives' = [actives EXCEPT !.active = timer_active']
    /\ thr' = "rd_title"
    /\ seen' = IF pc \in {"idle", "join"} THEN {Timer}
               ELSE {call.pre, Post(call.op, arg.title, arg.ts)}
    /\ UNCHANGED <<kind, timer_file, calendar, storeVars, pc, arg, call, prev>>
    /\ UNCHANGED <<stop_event, loops, torn>>

\* get_active_timer: the load of self._timer_active
ThrReadActive ==
    /\ thr = "rd_active"
    /\ actives' = [actives EXCEPT !.active = timer_active]
    /\ thr' = "rd_title"
    /\ seen' = IF pc \in {"idle", "join"} THEN {Timer}
               ELSE {call.pre, Post(call.op, arg.title, arg.ts)}
    /\ UNCHANGED <<kind, timerVars, calendar, storeVars, pc, arg, call, prev>>
    /\ UNCHANGED <<stop_event, loops, torn>>

\* get_active_timer: the load of self._timer_title
ThrReadTitle ==
    /\ thr = "rd_title"
    /\ actives' = [actives EXCEPT !.title = timer_title]
    /\ thr' = "rd_started"
    /\ UNCHANGED <<kind, timerVars, calendar, storeVars, pc, arg, call, prev>>
    /\ UNCHANGED <<stop_event, loops, seen, torn>>

\* get_active_timer: the load of self._timer_started; the tuple is returned
ThrReadStarted ==
    /\ thr = "rd_started"
    /\ actives' = [actives EXCEPT !.started = timer_started]
    /\ thr' = "notify"
    /\ torn' = (actives' \notin seen)
    /\ UNCHANGED <<kind, timerVars, calendar, storeVars, pc, arg, call, prev>>
    /\ UNCHANGED <<stop_event, loops, seen>>

\* the notification the loop is requesting: lines 33-36, notify(...) with the
\* message for the tuple read in this tick
Requested == IF thr = "notify" THEN Message(actives) ELSE NoMessage

\* what notify() returns: True when it thinks the notification was sent, False
\* when the dispatch failed (no notifier on this platform, or an exception,
\* which notify() logs and swallows)
DispatchOutcomes == {"sent", "failed"}

\* a failed dispatch raising out of notify() and ending _run
ThrNotifyRaises(result) ==
    /\ thr = "notify"
    /\ actives' = Cleared
    /\ torn' = FALSE
    /\ seen' = {}
    /\ thr' = IF result = "failed" THEN "dead" ELSE result
    /\ loops' = IF result = "failed" THEN loops - 1 ELSE loops
    /\ UNCHANGED <<kind, timerVars, calendar, storeVars, pc, arg, call, prev>>
    /\ UNCHANGED stop_event

\* notify() returns True or False (it raises nothing) and _run, which ignores
\* the value, is back in wait()
ThrNotify(result) ==
    /\ thr = "notify"
    /\ actives' = Cleared
    /\ torn' = FALSE
    /\ seen' = {}
    /\ thr' = result
    /\ UNCHANGED <<kind, timerVars, calendar, storeVars, pc, arg, call, prev>>
    /\ UNCHANGED <<stop_event, loops>>

----------------------------------------------------------------------------
(* TaskTUI: the Controller's state *)

\* Text in an input field is a sequence of characters.  The Store's titles and
\* list titles are the strings of Titles and RemoteLists; CharsOf gives their
\* characters and TitleOf the string of a sequence typed in the title field.
CharsOf(s) ==
    CASE s = "A"  -> <<"A">>
      [] s = "a"  -> <<"a">>
      [] s = "L1" -> <<"L", "1">>
      [] s = "L2" -> <<"L", "2">>
      [] OTHER    -> <<>>

TitleOf(q) ==
    CASE q = <<"A">> -> "A"
      [] q = <<"a">> -> "a"
      [] OTHER       -> ""

\* what is typed in the search field, and in the title field of the new-task modal
SearchTexts == {<<>>, <<" ", "A">>, <<"1">>}
TitleTexts == {<<>>, <<" ">>, <<"A">>, <<" ", "a">>}

RECURSIVE LStrip(_)
LStrip(q) == IF q # <<>> /\ Head(q) = " " THEN LStrip(Tail(q)) ELSE q

RECURSIVE RStrip(_)
RStrip(q) == IF q # <<>> /\ q[Len(q)] = " " THEN RStrip(SubSeq(q, 1, Len(q) - 1)) ELSE q

\* str.strip()
Strip(q) == RStrip(LStrip(q))

LowerChar(c) ==
    CASE c = "A" -> "a"
      [] c = "L" -> "l"
      [] OTHER   -> c

\* str.lower()
Lower(q) == [i \in 1..Len(q) |-> LowerChar(q[i])]

\* ft in text
Contains(ft, text) ==
    \E i \in 0..(Len(text) - Len(ft)) : SubSeq(text, i + 1, i + Len(ft)) = ft

RECURSIVE Select(_, _, _)
\* [t for t in q if ...]: the tasks of q whose title holds ft or, with labels,
\* whose list_title is set and holds it
Select(q, ft, labels) ==
    IF q = <<>> THEN <<>>
    ELSE LET t == Head(q)
             hit == \/ Contains(ft, Lower(CharsOf(t.title)))
                    \/ labels /\ t.list_title # NoList
                              /\ Contains(ft, Lower(CharsOf(t.list_title)))
         IN (IF hit THEN <<t>> ELSE <<>>) \o Select(Tail(q), ft, labels)

\* _filtered_open
filtered_open ==
    IF ui.filter_text = <<>> THEN list_open
    ELSE Select(list_open, Lower(ui.filter_text), TRUE)

\* _filtered_done
filtered_done ==
    IF ui.filter_text = <<>> THEN list_done
    ELSE Select(list_done, Lower(ui.filter_text), FALSE)

\* TaskTUI.__init__ and _build_main_layout: the open pane focused, both
\* selections at zero, no filter, no modal.  key / result: the last command
\* handled and how its handler ended; cmd, title, now: the handler that is
\* waiting for a Store call to return, and its locals
UiInit ==
    [focus_done |-> FALSE, idx_open |-> 0, idx_done |-> 0, filter_text |-> <<>>,
     search_visible |-> FALSE, newtask_visible |-> FALSE, list_widget |-> FALSE,
     search_text |-> <<>>, focused |-> "open_win",
     cmd |-> "none", title |-> "", now |-> 0,
     key |-> "none", result |-> "none", main |-> "tui"]

\* _not_typing_filter: no text input has the focus
typing_ok ==
    /\ ~(ui.search_visible /\ ui.focused = "search_input")
    /\ ~(ui.newtask_visible /\ ui.focused = "newtask_title_input")

\* cli.main is in run_tui and the Application waits for a key, no handler
\* running.  ui.main is the position of cli.main: "start" before bg.start(),
\* "tui" in run_tui, "finally" once run_tui has returned or raised, "stopping"
\* in bg.stop() and "returned" after it.
Ready == pc = "idle" /\ ui.cmd = "none" /\ ui.main = "tui"

\* a global shortcut reaches its handler: no handler is running, no text input
\* has the focus
Shortcut == Ready /\ typing_ok

\* the pane _current_task and _move look at, and its selection index
Pane == IF ui.focus_done THEN filtered_done ELSE filtered_open
Idx == IF ui.focus_done THEN ui.idx_done ELSE ui.idx_open

\* _current_task: "none" for an empty pane, "task" when items[idx] exists,
\* "IndexError" when the index is past the end
Current ==
    IF Pane = <<>> THEN "none"
    ELSE IF Idx < Len(Pane) THEN "task"
    ELSE "IndexError"

\* the task _current_task returns
CurrentTask == Pane[Idx + 1]

\* a handler ends: the command it handled and how it ended ("done"; "nothing"
\* when it returned at once; "raised" when an exception of a Store call left
\* it and "IndexError" when that of _current_task did; "caught" when it
\* swallowed one; "rejected" for an empty title)
Ended(u, key, result) ==
    [u EXCEPT !.key = key, !.result = result, !.cmd = "none", !.title = "", !.now = 0]

\* a handler that changes the view only ends: it leaves no record
View(u) == Ended(u, "none", "none")

\* the Store's state apart from the history of its calls
StoreState == <<kind, timerVars, calendar, storeVars, pc>>

----------------------------------------------------------------------------
(* TaskTUI: the key bindings and the handlers of the two modals.  A handler   *)
(* runs on the foreground thread; one that calls start_timer or stop_timer   *)
(* waits in ui.cmd while the statements of the call are taken.               *)

Max(a, b) == IF a > b THEN a ELSE b
Min(a, b) == IF a < b THEN a ELSE b

\* the handler makes no Store call
NoStoreCall == UNCHANGED <<kind, timerVars, calendar, storeVars, pc, arg, call, prev, schedVars>>

\* the focused pane's selection index set to i
SetIdx(u, i) == IF u.focus_done THEN [u EXCEPT !.idx_done = i] ELSE [u EXCEPT !.idx_open = i]

\* The focus is on one of the two panes.  While a Dialog has the focus its own
\* bindings of tab and of space (on a Button) take the key before the global ones.
PaneFocused == ui.focused \in {"open_win", "done_win"}

\* _move leaving alone an index that is past the end of the pane
KeyMoveFromInside(delta) ==
    /\ Shortcut
    /\ LET n == Len(Pane)
       IN ui' = View(IF n = 0 \/ Idx >= n THEN ui ELSE SetIdx(ui, Max(0, Min(Idx + delta, n - 1))))
    /\ NoStoreCall /\ UNCHANGED twin

\* up / down: _move(delta)
KeyMove(delta) ==
    /\ Shortcut
    /\ LET n == Len(Pane)
       IN ui' = View(IF n = 0 THEN ui ELSE SetIdx(ui, Max(0, Min(Idx + delta, n - 1))))
    /\ NoStoreCall /\ UNCHANGED twin

\* space: toggle the task under the selection
KeySpace(outcome) ==
    /\ Shortcut /\ PaneFocused
    /\ CASE Current = "none" -> ui' = Ended(ui, "space", "nothing") /\ NoStoreCall
         [] Current = "IndexError" -> ui' = Ended(ui, "space", "IndexError") /\ NoStoreCall
         [] Current = "task" ->
              /\ LocalToggle(CurrentTask.id, outcome) \/ GoogleToggle(CurrentTask.id, outcome)
              /\ ui' = Ended(ui, "space", IF call'.raised THEN "raised" ELSE "done")
    /\ UNCHANGED twin

\* d leaving the selection index where it was
KeyDKeepsIndex(outcome) ==
    /\ Shortcut
    /\ CASE Current = "none" -> ui' = Ended(ui, "d", "nothing") /\ NoStoreCall
         [] Current = "IndexError" -> ui' = Ended(ui, "d", "IndexError") /\ NoStoreCall
         [] Current = "task" ->
              /\ LocalDelete(CurrentTask.id, outcome) \/ GoogleDelete(CurrentTask.id, outcome)
              /\ ui' = Ended(ui, "d", IF call'.raised THEN "raised" ELSE "done")
    /\ UNCHANGED twin

\* d: delete the task under the selection, then move the selection up by one
KeyD(outcome) ==
    /\ Shortcut
    /\ CASE Current = "none" -> ui' = Ended(ui, "d", "nothing") /\ NoStoreCall
         [] Current = "IndexError" -> ui' = Ended(ui, "d", "IndexError") /\ NoStoreCall
         [] Current = "task" ->
              /\ LocalDelete(CurrentTask.id, outcome) \/ GoogleDelete(CurrentTask.id, outcome)
              /\ ui' = IF call'.raised THEN Ended(ui, "d", "raised")
                       ELSE Ended(SetIdx(ui, Max(0, Idx - 1)), "d", "done")
    /\ UNCHANGED twin

\* tab: the other pane
KeyTab ==
    /\ Shortcut /\ PaneFocused
    /\ ui' = View([ui EXCEPT !.focus_done = ~ui.focus_done,
                             !.focused = IF ui.focus_done THEN "open_win" ELSE "done_win"])
    /\ NoStoreCall /\ UNCHANGED twin

\* _on_search_change leaving the selection of the done pane where it was
OnSearchChangeKeepsDone(u, text) ==
    [u EXCEPT !.search_text = text, !.filter_text = Strip(text), !.idx_open = 0]

\* _on_search_change, the text of search_input having become text
OnSearchChange(u, text) ==
    [u EXCEPT !.search_text = text, !.filter_text = Strip(text), !.idx_open = 0, !.idx_done = 0]

\* _open_search opening the popup over the new-task modal
OpenSearchUnguarded(u) ==
    IF u.search_visible THEN u
    ELSE LET v == [u EXCEPT !.search_visible = TRUE, !.focused = "search_input"]
         IN IF u.search_text = u.filter_text THEN v ELSE OnSearchChange(v, u.filter_text)

\* _open_search: the preload of line 533 changes the text of search_input, and
\* so runs _on_search_change, when the text differs from filter_text
OpenSearch(u) ==
    IF u.search_visible \/ u.newtask_visible THEN u
    ELSE LET v == [u EXCEPT !.search_visible = TRUE, !.focused = "search_input"]
         IN IF u.search_text = u.filter_text THEN v ELSE OnSearchChange(v, u.filter_text)

\* _close_search
CloseSearch(u) ==
    IF ~u.search_visible THEN u
    ELSE [u EXCEPT !.search_visible = FALSE, !.focused = "open_win"]

\* _close_newtask_modal
CloseNewtaskModal(u) == [u EXCEPT !.newtask_visible = FALSE, !.focused = "open_win"]

\* "/"
KeySlash ==
    /\ Shortcut
    /\ ui' = Ended(OpenSearch(ui), "/", IF OpenSearch(ui) = ui THEN "nothing" ELSE "done")
    /\ NoStoreCall /\ UNCHANGED twin

\* a keystroke in search_input (c-u, which empties it, among them) changes its text
SearchType(text) ==
    /\ Ready
    /\ ui.search_visible /\ ui.focused = "search_input"
    /\ text # ui.search_text
    /\ ui' = View(OnSearchChange(ui, text))
    /\ NoStoreCall /\ UNCHANGED twin

\* Enter in search_input: _accept_search
SearchEnter ==
    /\ Ready
    /\ ui.search_visible /\ ui.focused = "search_input"
    /\ ui' = View(CloseSearch(ui))
    /\ NoStoreCall /\ UNCHANGED twin

\* escape: not guarded by typing_ok
KeyEscape ==
    /\ Ready
    /\ ui' = IF ui.search_visible THEN View(CloseSearch(ui))
             ELSE IF ui.newtask_visible THEN View(CloseNewtaskModal(ui))
             ELSE View(ui)
    /\ NoStoreCall /\ UNCHANGED twin

\* r: refresh
KeyR(failAt) ==
    /\ Shortcut
    /\ LocalRefresh \/ GoogleRefresh(failAt)
    /\ ui' = Ended(ui, "r", IF call'.raised THEN "raised" ELSE "done")
    /\ UNCHANGED twin

\* x: stop_timer(time.time()) when a timer is active
KeyX(now) ==
    /\ Shortcut
    /\ ui' = IF timer_active
             THEN [ui EXCEPT !.key = "x", !.result = "running", !.cmd = "stop", !.now = now]
             ELSE Ended(ui, "x", "nothing")
    /\ NoStoreCall /\ UNCHANGED twin

\* the timer calls without the stop_timer of a timer of another title
TimerCallsNoStop(u, key, title, now) ==
    [u EXCEPT !.key = key, !.result = "running", !.title = title, !.now = now, !.cmd = "start"]

\* the timer calls of the s binding and of _confirm_newtask_modal, for the
\* title chosen and the Timer State read by get_active_timer: stop_timer first
\* when a timer of another title is active
TimerCalls(u, key, title, now) ==
    [u EXCEPT !.key = key, !.result = "running", !.title = title, !.now = now,
              !.cmd = IF timer_active /\ timer_title # title THEN "stop" ELSE "start"]

\* s starting the timer again when it already runs on the selected title
KeySRestarts(now) ==
    /\ Shortcut
    /\ ui' = CASE Current = "none" -> Ended(ui, "s", "nothing")
               [] Current = "IndexError" -> Ended(ui, "s", "IndexError")
               [] Current = "task" -> TimerCalls(ui, "s", CurrentTask.title, now)
    /\ NoStoreCall /\ UNCHANGED twin

\* s: start the timer on the task under the selection
KeyS(now) ==
    /\ Shortcut
    /\ ui' = CASE Current = "none" -> Ended(ui, "s", "nothing")
               [] Current = "IndexError" -> Ended(ui, "s", "IndexError")
               [] Current = "task" ->
                    IF timer_active /\ timer_title = CurrentTask.title
                    THEN Ended(ui, "s", "nothing")
                    ELSE TimerCalls(ui, "s", CurrentTask.title, now)
    /\ NoStoreCall /\ UNCHANGED twin

\* the handler in progress calls stop_timer(now)
HandlerStop(slot) ==
    /\ ui.cmd = "stop"
    /\ CallStopTimer(ui.now, slot)
    /\ ui' = [ui EXCEPT !.cmd = "stopping"]
    /\ UNCHANGED twin

\* stop_timer returns to the handler: x ends, the others go on to start_timer
StopReturns(outcome) ==
    /\ ui.cmd = "stopping"
    /\ StopClearStarted(outcome)
    /\ ui' = IF ui.key = "x" THEN Ended(ui, "x", "done") ELSE [ui EXCEPT !.cmd = "start"]
    /\ UNCHANGED twin

\* the handler in progress calls start_timer(title, now)
HandlerStart ==
    /\ ui.cmd = "start"
    /\ CallStartTimer(ui.title, ui.now)
    /\ ui' = [ui EXCEPT !.cmd = "starting"]
    /\ UNCHANGED twin

\* start_timer returns to the handler, which ends; _confirm_newtask_modal
\* closes the modal first
StartReturns(outcome) ==
    /\ ui.cmd = "starting"
    /\ StartSetStarted(outcome)
    /\ ui' = IF ui.key = "confirm" THEN Ended(CloseNewtaskModal(ui), "confirm", "done")
             ELSE Ended(ui, ui.key, "done")
    /\ UNCHANGED twin

\* n: _open_newtask_modal unless a modal is open.  The list selector is built
\* when the backend has list_lists and it returns lists (lists = "ok"); when
\* it raises there is none.
KeyN(lists) ==
    /\ Shortcut
    /\ ui' = IF ui.search_visible \/ ui.newtask_visible THEN Ended(ui, "n", "nothing")
             ELSE Ended([ui EXCEPT !.newtask_visible = TRUE,
                                   !.list_widget = (kind = "google" /\ lists = "ok"),
                                   !.focused = "newtask_title_input"], "n", "done")
    /\ NoStoreCall /\ UNCHANGED twin

\* tab in the Dialog: the focus moves between the title field and the buttons
DialogFocus ==
    /\ Ready
    /\ ui.newtask_visible /\ ui.focused \in {"newtask_title_input", "button"}
    /\ ui' = View([ui EXCEPT !.focused = IF ui.focused = "button"
                                          THEN "newtask_title_input" ELSE "button"])
    /\ NoStoreCall /\ UNCHANGED twin

\* Cancel: _close_newtask_modal
Cancel ==
    /\ Ready
    /\ ui.newtask_visible /\ ui.focused = "button"
    /\ ui' = View(CloseNewtaskModal(ui))
    /\ NoStoreCall /\ UNCHANGED twin

\* _confirm_newtask_modal accepting any title
ConfirmAnyTitle(text, choice, outcome) ==
    /\ Ready
    /\ ui.newtask_visible /\ ui.focused = "button"
    /\ LET title == TitleOf(text)
       IN /\ IF ui.list_widget
             THEN GoogleCreateInList(title, choice, outcome)
             ELSE LocalEnsure(title, outcome) \/ GoogleEnsure(title, outcome)
          /\ ui' = IF call'.raised THEN Ended(ui, "confirm", "caught")
                   ELSE [ui EXCEPT !.key = "confirm", !.result = "running",
                                   !.cmd = "refresh", !.title = title]
    /\ UNCHANGED twin

\* OK: _confirm_newtask_modal up to the call that creates the task.  text is
\* what the title field holds, choice the list selected in the list selector
\* when there is one.
Confirm(text, choice, outcome) ==
    /\ Ready
    /\ ui.newtask_visible /\ ui.focused = "button"
    /\ LET title == TitleOf(Strip(text))
       IN IF Strip(text) = <<>>
          THEN /\ ui' = Ended([ui EXCEPT !.focused = "newtask_title_input"],
                              "confirm", "rejected")
               /\ NoStoreCall
          ELSE /\ IF ui.list_widget
                  THEN GoogleCreateInList(title, choice, outcome)
                  ELSE LocalEnsure(title, outcome) \/ GoogleEnsure(title, outcome)
               /\ ui' = IF call'.raised THEN Ended(ui, "confirm", "caught")
                        ELSE [ui EXCEPT !.key = "confirm", !.result = "running",
                                        !.cmd = "refresh", !.title = title]
    /\ UNCHANGED twin

\* _confirm_newtask_modal, lines 339-345: refresh, the open selection back to
\* zero, now = time.time(), get_active_timer
ConfirmRefresh(failAt, now) ==
    /\ pc = "idle" /\ ui.cmd = "refresh"
    /\ LocalRefresh \/ GoogleRefresh(failAt)
    /\ ui' = IF call'.raised THEN Ended(ui, "confirm", "caught")
             ELSE TimerCalls([ui EXCEPT !.idx_open = 0], "confirm", ui.title, now)
    /\ UNCHANGED twin

----------------------------------------------------------------------------
(* cli.main: bg.start(), run_tui(backend) in a try, bg.stop() in its finally *)

\* bg.start() before run_tui
MainStart ==
    /\ ui.main = "start"
    /\ BgStart
    /\ ui' = [ui EXCEPT !.main = "tui"]
    /\ UNCHANGED twin

\* q: e.app.exit(); run_async, and with it run_tui, returns
KeyQ ==
    /\ Shortcut
    /\ ui' = [Ended(ui, "q", "done") EXCEPT !.main = "finally"]
    /\ NoStoreCall /\ UNCHANGED twin

\* an exception leaving run_tui without the finally clause of main being run
RunTuiRaisesPastStop ==
    /\ Ready
    /\ ui' = [Ended(ui, "error", "raised") EXCEPT !.main = "returned"]
    /\ NoStoreCall /\ UNCHANGED twin

\* an exception leaves run_tui (the terminal is lost, the event loop fails, the
\* process is interrupted): main passes it by and goes on to its finally clause
RunTuiRaises ==
    /\ Ready
    /\ ui' = [Ended(ui, "error", "raised") EXCEPT !.main = "finally"]
    /\ NoStoreCall /\ UNCHANGED twin

\* finally: bg.stop(), the event is set
MainStopSet ==
    /\ ui.main = "finally"
    /\ BgStopSet
    /\ ui' = [ui EXCEPT !.main = "stopping"]
    /\ UNCHANGED twin

\* bg.stop() returns after the join, and main with it
MainStopJoin ==
    /\ ui.main = "stopping"
    /\ BgStopJoin
    /\ ui' = [ui EXCEPT !.main = "returned"]
    /\ UNCHANGED twin

\* the statements of the bg-worker thread
ThrStep ==
    \/ ThrWaitTimeout /\ UNCHANGED outerVars
    \/ ThrWaitStopped /\ UNCHANGED outerVars
    \/ ThrReadActive /\ UNCHANGED outerVars
    \/ ThrReadTitle /\ UNCHANGED outerVars
    \/ ThrReadStarted /\ UNCHANGED outerVars
    \/ \E result \in DispatchOutcomes : ThrNotify(result) /\ UNCHANGED outerVars

----------------------------------------------------------------------------
(* The two Backends side by side *)

\* A LocalJsonBackend on a medium of its own that never fails, as a value:
\* its _cache, its tasks.json, its Timer State and what its last call returned.
\* It is given every call the Store of this model is given, a task being named
\* in both by the number of its id.
TwinInit == [cache |-> <<>>, file |-> <<>>, timer |-> Cleared, ret |-> NoId]

TwinId(id) == Gid(NoList, id.n)

\* LocalJsonBackend.refresh
TwinRefresh(w) == [w EXCEPT !.cache = w.file, !.ret = NoId]

\* LocalJsonBackend.toggle
TwinToggle(w, id) ==
    LET i == FirstIndex(w.cache, id)
        q == [w.cache EXCEPT ![i].done = ~w.cache[i].done]
    IN IF i = 0 THEN [w EXCEPT !.ret = NoId]
       ELSE [w EXCEPT !.cache = q, !.file = q, !.ret = id]

\* LocalJsonBackend.delete
TwinDelete(w, id) ==
    LET i == FirstIndex(w.cache, id)
        q == IF i = 0 THEN w.cache ELSE RemoveAt(w.cache, i)
    IN [w EXCEPT !.cache = q, !.file = q, !.ret = IF i = 0 THEN NoId ELSE id]

\* LocalJsonBackend.ensure, n being the number of the id of a new task
TwinEnsure(w, title, n) ==
    LET i == FirstOpen(w.cache, title)
        q == Append(w.cache, Task(Gid(NoList, n), title, FALSE, NoList))
    IN IF i # 0 THEN [w EXCEPT !.ret = w.cache[i].id]
       ELSE [w EXCEPT !.cache = q, !.file = q, !.ret = Gid(NoList, n)]

\* LocalJsonBackend.start_timer
TwinStart(w, title, ts) == [w EXCEPT !.timer = Triple(TRUE, title, ts), !.ret = NoId]

\* LocalJsonBackend.stop_timer
TwinStop(w) == [w EXCEPT !.timer = Cleared, !.ret = NoId]

\* every remote call of refresh succeeds
NoFailure == Len(RemoteLists) + 1

\* one call of the contract, succeeding, made on the Store and on its twin
TwinStep ==
    \/ /\ LocalRefresh \/ GoogleRefresh(NoFailure)
       /\ twin' = TwinRefresh(twin)
       /\ UNCHANGED ui
    \/ \E id \in Ids :
          /\ LocalToggle(id, "ok") \/ GoogleToggle(id, "ok")
          /\ twin' = TwinToggle(twin, TwinId(id))
          /\ UNCHANGED ui
    \/ \E id \in Ids :
          /\ LocalDelete(id, "ok") \/ GoogleDelete(id, "ok")
          /\ twin' = TwinDelete(twin, TwinId(id))
          /\ UNCHANGED ui
    \/ \E title \in Titles :
          /\ LocalEnsure(title, "ok") \/ GoogleEnsure(title, "ok")
          /\ twin' = TwinEnsure(twin, title, FreshNumber)
          /\ UNCHANGED ui
    \/ \E title \in Titles, ts \in Timestamps :
          /\ CallStartTimer(title, ts)
          /\ twin' = TwinStart(twin, title, ts)
          /\ UNCHANGED ui
    \/ \E ts \in Timestamps :
          /\ CallStopTimer(ts, "ok")
          /\ twin' = TwinStop(twin)
          /\ UNCHANGED ui

\* the statements of a start_timer / stop_timer in progress
TimerRuns(writes) ==
    \/ \E outcome \in writes : StartDeactivate(outcome)
    \/ StartSetActive
    \/ StartSetTitle
    \/ StopClearActive
    \/ StopClearTitle

----------------------------------------------------------------------------
(* Construction *)

\* a new process builds a Store on the same medium: __init__ presets the timer
\* fields and loads the timer document; the cache is filled by refresh().  The
\* bg-worker thread of the old process is gone with it.
Restart ==
    /\ pc = "idle"
    /\ IF kind = "localjson" THEN task_file.state = "json" ELSE TRUE
    /\ timer_active' = LoadTimer(timer_file).active
    /\ timer_title' = LoadTimer(timer_file).title
    /\ timer_started' = LoadTimer(timer_file).started
    /\ cache' = IF kind = "localjson" THEN task_file.tasks
                ELSE ItemsOfLists(remote, Len(RemoteLists))
    /\ id_index' = IF kind = "localjson" THEN {} ELSE {t.id : t \in SeqToSet(cache')}
    /\ stop_event' = FALSE
    /\ thr' = "none"
    /\ actives' = Cleared
    /\ loops' = 0
    /\ torn' = FALSE
    /\ seen' = {}
    /\ call' = Enter("restart")
    /\ prev' = Returned
    /\ arg' = [title |-> "", ts |-> 0]
    /\ UNCHANGED <<kind, timer_file, calendar, task_file, remote, pc>>
    /\ UNCHANGED outerVars

Init ==
    /\ kind \in Kinds
    /\ timer_active = FALSE
    /\ timer_title = ""
    /\ timer_started = 0
    /\ timer_file = NoFile
    /\ calendar = <<>>
    /\ cache = <<>>
    /\ task_file = TaskDoc(<<>>)
    /\ remote = <<>>
    /\ id_index = {}
    /\ pc = "idle"
    /\ arg = [title |-> "", ts |-> 0]
    /\ stop_event = FALSE
    /\ thr = "none"
    /\ actives = Cleared
    /\ loops = 0
    /\ call = NoCall
    /\ prev = NoPrev
    /\ seen = {}
    /\ torn = FALSE
    /\ ui = UiInit
    /\ twin = TwinInit

\* a Store constructed on a medium that holds one open task, made in an
\* earlier run of the program
InitLoaded ==
    /\ kind \in Kinds
    /\ timer_active = FALSE
    /\ timer_title = ""
    /\ timer_started = 0
    /\ timer_file = NoFile
    /\ calendar = <<>>
    /\ task_file = IF kind = "localjson"
                   THEN TaskDoc(<<Task(Gid(NoList, 1), "A", FALSE, NoList)>>)
                   ELSE TaskDoc(<<>>)
    /\ remote = IF kind = "google" THEN <<Item(DefaultList, 1, "A", FALSE)>> ELSE <<>>
    /\ cache = IF kind = "localjson" THEN task_file.tasks
               ELSE ItemsOfLists(remote, Len(RemoteLists))
    /\ id_index = IF kind = "google" THEN {t.id : t \in SeqToSet(cache)} ELSE {}
    /\ pc = "idle"
    /\ arg = [title |-> "", ts |-> 0]
    /\ stop_event = FALSE
    /\ thr = "none"
    /\ actives = Cleared
    /\ loops = 0
    /\ call = NoCall
    /\ prev = NoPrev
    /\ seen = {}
    /\ torn = FALSE
    /\ ui = UiInit
    /\ twin = TwinInit

\* a Store constructed on a medium that holds two open tasks, made in an
\* earlier run of the program
InitTwo ==
    /\ kind \in Kinds
    /\ timer_active = FALSE
    /\ timer_title = ""
    /\ timer_started = 0
    /\ timer_file = NoFile
    /\ calendar = <<>>
    /\ task_file = IF kind = "localjson"
                   THEN TaskDoc(<<Task(Gid(NoList, 1), "A", FALSE, NoList),
                                  Task(Gid(NoList, 2), "a", FALSE, NoList)>>)
                   ELSE TaskDoc(<<>>)
    /\ remote = IF kind = "google"
                THEN <<Item(DefaultList, 1, "A", FALSE), Item(DefaultList, 2, "a", FALSE)>>
                ELSE <<>>
    /\ cache = IF kind = "localjson" THEN task_file.tasks
               ELSE ItemsOfLists(remote, Len(RemoteLists))
    /\ id_index = IF kind = "google" THEN {t.id : t \in SeqToSet(cache)} ELSE {}
    /\ pc = "idle"
    /\ arg = [title |-> "", ts |-> 0]
    /\ stop_event = FALSE
    /\ thr = "none"
    /\ actives = Cleared
    /\ loops = 0
    /\ call = NoCall
    /\ prev = NoPrev
    /\ seen = {}
    /\ torn = FALSE
    /\ ui = UiInit
    /\ twin = TwinInit

\* the Store's timer operations, statement by statement, the writes of the
\* timer document ending as in writes and the remote recording call as in slots
TimerStep(writes, slots) ==
    \/ \E title \in Titles, ts \in Timestamps : CallStartTimer(title, ts) /\ UNCHANGED outerVars
    \/ \E outcome \in writes : StartDeactivate(outcome) /\ UNCHANGED outerVars
    \/ StartSetActive /\ UNCHANGED outerVars
    \/ StartSetTitle /\ UNCHANGED outerVars
    \/ \E outcome \in writes : StartSetStarted(outcome) /\ UNCHANGED outerVars
    \/ \E ts \in Timestamps, slot \in slots : CallStopTimer(ts, slot) /\ UNCHANGED outerVars
    \/ StopClearActive /\ UNCHANGED outerVars
    \/ StopClearTitle /\ UNCHANGED outerVars
    \/ \E outcome \in writes : StopClearStarted(outcome) /\ UNCHANGED outerVars

\* the bg-worker thread and the calls that start and stop it
SchedStep ==
    \/ BgStart /\ UNCHANGED outerVars
    \/ BgStopSet /\ UNCHANGED outerVars
    \/ BgStopJoin /\ UNCHANGED outerVars
    \/ ThrWaitTimeout /\ UNCHANGED outerVars
    \/ ThrWaitStopped /\ UNCHANGED outerVars
    \/ ThrReadActive /\ UNCHANGED outerVars
    \/ ThrReadTitle /\ UNCHANGED outerVars
    \/ ThrReadStarted /\ UNCHANGED outerVars
    \/ \E result \in DispatchOutcomes : ThrNotify(result) /\ UNCHANGED outerVars

\* the Store's task operations, the writes of the task document ending as in
\* writes and the remote calls as in calls
TaskStep(writes, calls) ==
    \/ LocalRefresh /\ UNCHANGED outerVars
    \/ \E id \in Ids, outcome \in writes : LocalToggle(id, outcome) /\ UNCHANGED outerVars
    \/ \E id \in Ids, outcome \in writes : LocalDelete(id, outcome) /\ UNCHANGED outerVars
    \/ \E title \in Titles, outcome \in writes : LocalEnsure(title, outcome) /\ UNCHANGED outerVars
    \/ \E failAt \in {k \in 0..(Len(RemoteLists) + 1) : "fail" \in calls \/ k > Len(RemoteLists)} :
          GoogleRefresh(failAt) /\ UNCHANGED outerVars
    \/ \E id \in Ids, outcome \in calls : GoogleToggle(id, outcome) /\ UNCHANGED outerVars
    \/ \E id \in Ids, outcome \in calls : GoogleDelete(id, outcome) /\ UNCHANGED outerVars
    \/ \E title \in Titles, outcome \in calls : GoogleEnsure(title, outcome) /\ UNCHANGED outerVars
    \/ \E title \in Titles, list \in SeqToSet(RemoteLists),
          outcome \in calls \cup (IF "fail" \in calls THEN {"names"} ELSE {}) :
          GoogleCreateInList(title, list, outcome) /\ UNCHANGED outerVars

\* The Store's timer contract: start_timer and stop_timer with every outcome of
\* the document writes and of the remote recording call, and restarts of the
\* process on the same medium.
Next == TimerStep(WriteOutcomes, SlotOutcomes) \/ Restart

Spec == Init /\ [][Next]_vars

\* The two threads: the notifier thread and the calls that start and stop it,
\* interleaved with the statements of start_timer and stop_timer.  The thread
\* reads the three fields in memory only, so the medium is taken not to fail.
NextSched == TimerStep({"ok"}, {"ok"}) \/ SchedStep

SpecSched == Init /\ [][NextSched]_vars

\* The two threads over a Store that holds a task.
SpecLoop == InitLoaded /\ [][NextSched]_vars

\* the bg-worker thread's timed wait returns: after self.interval (no later than
\* that) when the event stays clear, at once when it is set
SpecSchedFair == SpecSched /\ WF_vars((ThrWaitTimeout \/ ThrWaitStopped) /\ UNCHANGED outerVars)

\* The Store's task and timer operations together, the medium not failing.
NextStore == TaskStep({"ok"}, {"ok"}) \/ TimerStep({"ok"}, {"ok"})

SpecStore == Init /\ [][NextStore]_vars

\* The Store's task operations with every outcome of the document writes and
\* of the remote calls, the remote lists being changed by other clients too.
NextTasks ==
    \/ TaskStep(WriteOutcomes, SlotOutcomes)
    \/ \E r \in 1..MaxTasks : RemoteChanged(r)

SpecTasks == Init /\ [][NextTasks]_vars

\* Both Backends from empty stores, given the same calls, every call succeeding
\* and no other client changing the remote lists.
NextTwin ==
    \/ TwinStep
    \/ TimerRuns({"ok"}) /\ UNCHANGED outerVars
    \/ StartSetStarted("ok") /\ UNCHANGED outerVars
    \/ StopClearStarted("ok") /\ UNCHANGED outerVars

SpecTwin == Init /\ [][NextTwin]_vars

\* up / down and tab
MoveKeys ==
    \/ \E delta \in {-1, 1} : KeyMove(delta)
    \/ KeyTab

\* the bindings that act on the task under the selection or on the Store, a
\* Store call ending as in outs and the remote calls of refresh raising from
\* the places in fails on
PaneKeys(outs, fails) ==
    \/ \E outcome \in outs : KeySpace(outcome)
    \/ \E outcome \in outs : KeyD(outcome)
    \/ \E failAt \in fails : KeyR(failAt)
    \/ \E now \in Timestamps : KeyX(now)
    \/ \E now \in Timestamps : KeyS(now)

\* the search popup
SearchKeys ==
    \/ KeySlash
    \/ \E text \in SearchTexts : SearchType(text)
    \/ SearchEnter
    \/ KeyEscape

\* the new-task modal
NewTaskKeys(outs, fails) ==
    \/ \E lists \in outs : KeyN(lists)
    \/ DialogFocus
    \/ Cancel
    \/ \E text \in TitleTexts, choice \in SeqToSet(RemoteLists), outcome \in outs :
          Confirm(text, choice, outcome)
    \/ \E failAt \in fails, now \in Timestamps : ConfirmRefresh(failAt, now)

\* the timer calls of the handler in progress, statement by statement
HandlerCalls(slots) ==
    \/ \E slot \in slots : HandlerStop(slot)
    \/ StopReturns("ok")
    \/ HandlerStart
    \/ StartReturns("ok")
    \/ TimerRuns({"ok"}) /\ UNCHANGED outerVars

\* The Controller over a Store that holds two tasks: the bindings of the two
\* panes, the task document and the remote calls ending in every way.
NextPanes ==
    \/ MoveKeys
    \/ PaneKeys({"ok", "unchanged"}, {0, NoFailure})
    \/ HandlerCalls(SlotOutcomes)

SpecPanes == InitTwo /\ [][NextPanes]_vars

\* The Controller from an empty store: the two modals, the moves of the
\* selection and space, every Store call succeeding.
NextModals ==
    \/ MoveKeys
    \/ KeySpace("ok")
    \/ SearchKeys
    \/ NewTaskKeys({"ok"}, {NoFailure})
    \/ HandlerCalls({"ok"})

SpecModals == Init /\ [][NextModals]_vars

\* main is about to call bg.start(); the Store holds two open tasks
InitMain ==
    /\ kind \in Kinds
    /\ timer_active = FALSE
    /\ timer_title = ""
    /\ timer_started = 0
    /\ timer_file = NoFile
    /\ calendar = <<>>
    /\ task_file = IF kind = "localjson"
                   THEN TaskDoc(<<Task(Gid(NoList, 1), "A", FALSE, NoList),
                                  Task(Gid(NoList, 2), "a", FALSE, NoList)>>)
                   ELSE TaskDoc(<<>>)
    /\ remote = IF kind = "google"
                THEN <<Item(DefaultList, 1, "A", FALSE), Item(DefaultList, 2, "a", FALSE)>>
                ELSE <<>>
    /\ cache = IF kind = "localjson" THEN task_file.tasks
               ELSE ItemsOfLists(remote, Len(RemoteLists))
    /\ id_index = IF kind = "google" THEN {t.id : t \in SeqToSet(cache)} ELSE {}
    /\ pc = "idle"
    /\ arg = [title |-> "", ts |-> 0]
    /\ stop_event = FALSE
    /\ thr = "none"
    /\ actives = Cleared
    /\ loops = 0
    /\ call = NoCall
    /\ prev = NoPrev
    /\ seen = {}
    /\ torn = FALSE
    /\ ui = [UiInit EXCEPT !.main = "start"]
    /\ twin = TwinInit

\* main from bg.start() to the return of bg.stop(): the Controller moving the
\* selection and starting and stopping timers until q or an error ends its
\* loop, the bg-worker thread running beside it.
NextMain ==
    \/ MainStart
    \/ MoveKeys
    \/ \E now \in Timestamps : KeyS(now)
    \/ \E now \in Timestamps : KeyX(now)
    \/ HandlerCalls({"ok"})
    \/ KeyQ
    \/ RunTuiRaises
    \/ MainStopSet
    \/ MainStopJoin
    \/ ThrStep

SpecMain == InitMain /\ [][NextMain]_vars

\* main runs on: its finally clause is reached and bg.stop(), whose join is
\* bounded by its timeout, returns; the bg-worker thread runs on: its timed
\* wait returns and the statements of a tick come to their end
SpecMainFair ==
    /\ SpecMain
    /\ WF_vars(MainStopSet)
    /\ WF_vars(MainStopJoin)
    /\ WF_vars(ThrStep)

----------------------------------------------------------------------------
(* Properties *)

\* the foreground call op has returned and no other was entered since
After(op) == pc = "idle" /\ call.op = op

\* the operations of the task contract that change the Store
TaskOps == {"refresh", "toggle", "delete", "ensure", "create_in_list"}

\* a step in which one of them is called and returns (or raises)
TaskOpReturns == pc = "idle" /\ pc' = "idle" /\ call'.op \in TaskOps

\* stop() has returned, and no start() has cleared the event since
StopReturned == stop_event /\ pc # "join"

\* a tick of the loop fires: a field of the Timer State is read, or the
\* notification request is made and returns
Tick ==
    \/ ThrReadActive \/ ThrReadTitle \/ ThrReadStarted
    \/ \E result \in DispatchOutcomes : ThrNotify(result)

\* the interval of the timer that was running when the call was entered, closed
\* at the call's timestamp
Closed == Interval(call.pre.started, arg.ts, call.pre.title)

\* C1: a get_active_timer read by the notifier thread, interleaved with
\* start_timer / stop_timer on the foreground thread, returns a complete Timer
\* State that held at some point of the read (before or after each write), never
\* a mix of two.
C1_ReadIsNeverTorn == ~torn

\* C2: active = false implies title = "" and started = 0, in the Timer State in
\* memory whenever no call is in progress, and in every timer document written.
C2_InactiveIsCleared ==
    /\ (pc = "idle" /\ ~timer_active) => (timer_title = "" /\ timer_started = 0)
    /\ (timer_file.state = "json" /\ ~timer_file.active)
          => (timer_file.title = "" /\ timer_file.started = 0)

\* C3 as stated: start_timer(title, started_ts) ends with (true, title,
\* started_ts) in memory and the same three values in the timer document.
C3_StartEndsPersisted ==
    After("start_timer") =>
        /\ Timer = Triple(TRUE, arg.title, arg.ts)
        /\ timer_file = JsonDoc(TRUE, arg.title, arg.ts)

\* C3 amended: start_timer(title, started_ts) ends with (true, title,
\* started_ts) in memory for every prior Timer State, and with the same three
\* values in the timer document when its last write succeeded; a failed write
\* is swallowed and leaves the document as it was or truncated.
C3_StartEnds ==
    After("start_timer") =>
        /\ Timer = Triple(TRUE, arg.title, arg.ts)
        /\ ~call.raised
        /\ call.save = "ok" => timer_file = JsonDoc(TRUE, arg.title, arg.ts)
        /\ call.save = "corrupt" => timer_file = BadFile

\* start_timer has replaced the running timer of another title and persisted it
C3_Witness ==
    /\ After("start_timer")
    /\ call.pre.active /\ call.pre.title # arg.title /\ call.pre.started # arg.ts
    /\ call.save = "ok"
    /\ timer_file = JsonDoc(TRUE, arg.title, arg.ts)

\* C4: on the remote backend start_timer(B, t2), called while a timer of another
\* title A started at t1 < t2 runs and the calendar accepts events, records
\* exactly the interval (t1, t2, A); on the local backend it records nothing.
C4_SwitchRecordsInterval ==
    (After("start_timer") /\ call.pre.active /\ call.pre.title # arg.title)
        => IF kind = "google" /\ call.pre.started < arg.ts /\ call.cal0 < MaxEvents
           THEN RecordedSince(call) = <<Closed>>
           ELSE RecordedSince(call) = <<>>

\* C5 as stated: after stop_timer the Timer State in memory and the timer
\* document are (false, "", 0) and nothing was raised, whether or not the
\* interval was recorded.
C5_StopClearsPersisted ==
    After("stop_timer") =>
        /\ Timer = Cleared
        /\ timer_file = JsonDoc(FALSE, "", 0)
        /\ ~call.raised

\* C5 amended: after stop_timer the Timer State in memory is (false, "", 0) and
\* nothing was raised, whether or not the interval was recorded; the timer
\* document holds (false, "", 0) when its write succeeded (a failed write is
\* swallowed).
C5_StopClears ==
    After("stop_timer") =>
        /\ Timer = Cleared
        /\ ~call.raised
        /\ call.save = "ok" => timer_file = JsonDoc(FALSE, "", 0)
        /\ call.save = "corrupt" => timer_file = BadFile

\* stop_timer has cleared a running timer whose interval could not be recorded
C5_Witness ==
    /\ After("stop_timer")
    /\ call.pre.active
    /\ call.slot = "raise"
    /\ call.save = "ok"
    /\ Timer = Cleared

\* C6: stop_timer(t) with no timer active raises nothing, records no interval
\* and leaves the Timer State what it was before the call, with active = false.
C6_StopWhenInactiveIsNoOp ==
    (After("stop_timer") /\ ~call.pre.active) =>
        /\ ~call.raised
        /\ RecordedSince(call) = <<>>
        /\ Timer = call.pre
        /\ ~timer_active

C8_SurvivesRestartAlways ==
    /\ (pc = "idle" /\ call.op \in {"start_timer", "stop_timer"})
          => LoadTimer(timer_file) = Timer
    /\ (After("restart") /\ prev.op \in {"start_timer", "stop_timer"})
          => Timer = call.pre

\* C8 amended: after start_timer / stop_timer calls the last of which wrote the
\* timer document successfully, a Store constructed on the same medium returns
\* the Timer State of the Store that made the calls (a failed write is
\* swallowed, and the new Store then returns what the stale document holds, or
\* (false, "", 0) for a truncated one).
C8_SurvivesRestart ==
    /\ (pc = "idle" /\ call.op \in {"start_timer", "stop_timer"} /\ call.save = "ok")
          => LoadTimer(timer_file) = Timer
    /\ (After("restart") /\ prev.op \in {"start_timer", "stop_timer"} /\ prev.save = "ok")
          => Timer = call.pre
    /\ After("restart") => Timer = LoadTimer(timer_file)

\* a Store constructed after a start_timer call returns the running timer
C8_Witness ==
    /\ After("restart")
    /\ prev.op = "start_timer" /\ prev.save = "ok"
    /\ timer_active /\ timer_started = MaxTs
    /\ Timer = call.pre

\* C9: refresh, toggle, delete, ensure and create_in_list leave the Timer State
\* and the timer document unchanged (list_open and list_done change no state
\* at all).
C9_TaskOpsKeepTimer == [][TaskOpReturns => UNCHANGED timerVars]_vars

\* the task the running timer names has been toggled to done, or deleted, and
\* the timer still runs
C9_Witness ==
    /\ pc = "idle"
    /\ call.op \in {"toggle", "delete"} /\ call.ret # NoId
    /\ timer_active /\ Timer = call.pre
    /\ \/ \E i \in 1..Len(cache) :
             cache[i].id = call.ret /\ cache[i].title = timer_title /\ cache[i].done
       \/ call.op = "delete" /\ \A i \in 1..Len(cache) : cache[i].title # timer_title

\* C10: after stop() has returned the loop reads no Timer State and requests
\* no notification.
C10_NoTickAfterStop == [][StopReturned => ~Tick]_vars

\* start() is called, and returns, in this step
StartCalled == pc = "idle" /\ call'.op = "start" /\ <<call, prev>>' # <<call, prev>>

\* a step of the bg-worker thread's loop
Loop == ThrWaitTimeout \/ ThrWaitStopped \/ Tick

\* C11: at most one scheduler loop is alive after any start() / stop() calls,
\* and a start() issued while a loop is alive starts no thread and changes no
\* state of the scheduler (the event, the thread, the tick in progress).
C11_StartIsIdempotent ==
    /\ [](loops <= 1 /\ (loops = 1 <=> Alive))
    /\ [][(StartCalled /\ Alive) => UNCHANGED schedVars]_vars

\* start() has been called twice in a row, then stop() has given up on a tick
\* in progress, and a third start() has found the loop alive
C11_Witness ==
    /\ After("start") /\ prev.op = "start"
    /\ stop_event /\ thr = "notify"
    /\ loops = 1

\* C12: no step of the scheduler loop changes the task cache, the id index, the
\* task document, the remote lists, the Timer State, the timer document or the
\* calendar.
C12_LoopKeepsStore == [][Loop => UNCHANGED <<storeVars, timerVars, calendar>>]_vars

\* a tick has read a running timer whose document and calendar event exist
C12_Witness ==
    /\ thr = "notify" /\ actives.active
    /\ Timer = actives
    /\ timer_file = JsonDoc(TRUE, actives.title, actives.started)
    /\ kind = "google" /\ calendar # <<>>
    /\ cache # <<>> /\ id_index # {} /\ remote # <<>>

\* the reminder for the Timer State s
Reminder(s) ==
    IF s.active THEN [text |-> "Are you still working on {}?", title |-> s.title]
    ELSE [text |-> "What are you working on? Open Taskanov", title |-> ""]

\* C13: the notification a tick requests is the reminder for a Timer State that
\* held during the tick's read: the generic one when no timer was active, the
\* one naming the title of the task in progress when a timer was active.
C13_ReminderForTimerState ==
    thr = "notify" => \E s \in seen : Requested = Reminder(s)

\* C14: a tick whose dispatch fails leaves the loop running, in its wait, and
\* the next tick begins unless stop() is called.
C14_FailedDispatchKeepsLoop ==
    /\ [][(thr = "notify" /\ thr' # thr) => (thr' \in DispatchOutcomes /\ loops' = loops)]_vars
    /\ [](thr = "failed" => Alive /\ loops = 1)
    /\ (thr = "failed") ~> (thr = "rd_active" \/ stop_event)

\* a dispatch has failed, another tick has run and its dispatch has failed too
C14_Witness == thr = "failed" /\ ~stop_event /\ loops = 1

\* the calls of the task contract, with any outcome of their writes and
\* remote calls: the step is such a call, which the history records
EnsureOf(title) ==
    /\ call'.op = "ensure" /\ arg'.title = title
    /\ \/ \E outcome \in WriteOutcomes : LocalEnsure(title, outcome)
       \/ \E outcome \in SlotOutcomes : GoogleEnsure(title, outcome)

ToggleOf(id) ==
    /\ call'.op = "toggle"
    /\ \/ \E outcome \in WriteOutcomes : LocalToggle(id, outcome)
       \/ \E outcome \in SlotOutcomes : GoogleToggle(id, outcome)

DeleteOf(id) ==
    /\ call'.op = "delete"
    /\ \/ \E outcome \in WriteOutcomes : LocalDelete(id, outcome)
       \/ \E outcome \in SlotOutcomes : GoogleDelete(id, outcome)

RefreshCalled ==
    /\ call'.op = "refresh"
    /\ \/ LocalRefresh
       \/ \E failAt \in 0..(Len(RemoteLists) + 1) : GoogleRefresh(failAt)

\* the ids of the tasks of q
IdsOf(q) == {q[i].id : i \in 1..Len(q)}

\* the id resolves to a task of the Store
Live(id) == id \in IdsOf(cache) /\ (kind = "google" => id \in id_index)

\* q holds an open task with exactly this title
HasOpen(q, title) == \E i \in 1..Len(q) : q[i].title = title /\ ~q[i].done

\* the task list the medium holds
MediumTasks ==
    IF kind = "localjson" THEN task_file.tasks ELSE ItemsOfLists(remote, Len(RemoteLists))

\* C15: ensure(title) returns an open task with exactly this title and changes
\* nothing when the cache holds one; otherwise, unless it raises, it appends
\* exactly one task, open, with this title and an id no cached task has, and
\* returns it, whatever completed tasks of this title exist.  A second
\* ensure(title) right after the first returns the same id and adds nothing.
C15_EnsureIsIdempotent ==
    [][\A title \in Titles :
        EnsureOf(title) =>
            /\ HasOpen(cache, title) =>
                  /\ ~call'.raised
                  /\ \E i \in 1..Len(cache) :
                        cache[i].id = call'.ret /\ cache[i].title = title /\ ~cache[i].done
                  /\ UNCHANGED storeVars
            /\ (~HasOpen(cache, title) /\ ~call'.raised) =>
                  /\ Len(cache') = Len(cache) + 1
                  /\ SubSeq(cache', 1, Len(cache)) = cache
                  /\ cache'[Len(cache')].title = title
                  /\ ~cache'[Len(cache')].done
                  /\ cache'[Len(cache')].id = call'.ret
                  /\ call'.ret \notin IdsOf(cache)
            /\ (After("ensure") /\ ~call.raised /\ arg.title = title /\ ~call'.raised) =>
                  (call'.ret = call.ret /\ cache' = cache)
      ]_vars

\* ensure("A") has been called twice in a row on a cache that holds a completed
\* "A": one open "A" was added, and returned both times
C15_Witness ==
    /\ After("ensure") /\ prev.op = "ensure" /\ ~call.raised /\ arg.title = "A"
    /\ Len(cache) = 2
    /\ cache[1].title = "A" /\ cache[1].done
    /\ cache[2].title = "A" /\ ~cache[2].done /\ cache[2].id = call.ret

\* C16: delete(toggle(id).id), both calls returning, leaves no task with that
\* id in the cache, in list_open() or in list_done(), whether the task was open
\* or done before.
C16_DeleteAfterToggle ==
    [][\A id \in Ids :
        (After("toggle") /\ ~call.raised /\ call.ret = id /\ DeleteOf(id) /\ ~call'.raised) =>
            /\ call'.ret = id
            /\ id \notin IdsOf(cache')
            /\ id \notin IdsOf(Filter(cache', FALSE))
            /\ id \notin IdsOf(Filter(cache', TRUE))
      ]_vars

\* a task was toggled, then deleted, and another task is still there
C16_Witness ==
    /\ After("delete") /\ prev.op = "toggle" /\ ~call.raised
    /\ call.ret # NoId
    /\ call.ret \notin IdsOf(cache)
    /\ Len(cache) = 1

\* C17: toggle(id) on a live id, unless it raises, flips the done flag of that
\* task in the cache, leaves every other entry and the order as they were,
\* returns the task, and has written the result to the medium; on the remote
\* backend also when another client changed the item after the cache was read.
C17_ToggleFlips ==
    [][\A id \in Ids :
        (Live(id) /\ ToggleOf(id) /\ ~call'.raised) =>
            LET i == FirstIndex(cache, id)
            IN /\ cache' = [cache EXCEPT ![i].done = ~cache[i].done]
               /\ call'.ret = id
               /\ kind = "localjson" => task_file' = TaskDoc(cache')
               /\ kind = "google" => remote'[RemoteIndex(id)].completed = cache'[i].done
      ]_vars

C19_NotFoundChangesNothing ==
    [][\A id \in Ids :
        (~Live(id) /\ (ToggleOf(id) \/ DeleteOf(id))) =>
            /\ ~call'.raised
            /\ call'.ret = NoId
            /\ UNCHANGED <<storeVars, timerVars>>
      ]_vars

\* C20: refresh(), unless it raises, leaves in the cache the task list the
\* medium holds, whatever the cache held; on the local backend a refresh that
\* raises (the document cannot be read) leaves the cache as it was.  The medium
\* is not written.
C20_RefreshReplaces ==
    [][RefreshCalled =>
        /\ ~call'.raised => cache' = MediumTasks
        /\ (kind = "localjson" /\ call'.raised) => cache' = cache
        /\ kind = "localjson" => (call'.raised <=> task_file.state # "json")
        /\ UNCHANGED <<task_file, remote, timerVars>>
      ]_vars

\* refresh() has raised on an unreadable document and the cache still holds
\* its task
C20_Witness ==
    /\ After("refresh") /\ call.raised
    /\ kind = "localjson"
    /\ task_file = BadTaskDoc
    /\ cache # <<>>

RECURSIVE Shown(_)
\* the (title, done) pairs of a listing
Shown(q) == IF q = <<>> THEN <<>> ELSE <<<<Head(q).title, Head(q).done>>>> \o Shown(Tail(q))

\* C21: given the same sequence of ensure, toggle, delete, refresh, start_timer
\* and stop_timer from empty stores, every remote call succeeding and no other
\* client changing the remote lists, the Store of either kind and a
\* LocalJsonBackend show the same (title, done) sequences in list_open() and
\* list_done(), the same NotFound outcomes and the same get_active_timer().
C21_BackendsAgree ==
    pc = "idle" =>
        /\ Shown(list_open) = Shown(Filter(twin.cache, FALSE))
        /\ Shown(list_done) = Shown(Filter(twin.cache, TRUE))
        /\ (call.op \in {"toggle", "delete"}) => ((call.ret = NoId) <=> (twin.ret = NoId))
        /\ Timer = twin.timer

\* the Controller's state: focus, selections, filter and modals, without the
\* record of the last command
UiState(u) == [u EXCEPT !.key = "none", !.result = "none"]

\* "/" or n reaches its handler
EnterModal == KeySlash \/ \E lists \in SlotOutcomes : KeyN(lists)

\* C22: at most one of the search popup and the new-task modal is visible, and
\* "/" and n change neither the Controller's state nor the Store when a modal
\* is open.
C22_ModalsExclusive ==
    [][/\ ~(ui'.search_visible /\ ui'.newtask_visible)
       /\ ((ui.search_visible \/ ui.newtask_visible) /\ ui'.key \in {"/", "n"} /\ EnterModal)
             => (UiState(ui') = UiState(ui) /\ UNCHANGED StoreState)]_vars

\* "/" was pressed while the new-task modal was open, a button having the focus
C22_Witness ==
    /\ ui.newtask_visible /\ ~ui.search_visible
    /\ ui.focused = "button"
    /\ ui.key = "/" /\ ui.result = "nothing"

\* space, d or s reaches its handler and the focused pane's filtered view is
\* not empty
Resolves == Shortcut /\ Pane # <<>> /\ ui'.key \in {"space", "d", "s"} /\ ui' # ui

\* C23: whenever space, d or s resolves the task under the selection in a pane
\* whose filtered view is not empty, the pane's selection index is within
\* [0, len-1] and the handler gets an existing task instead of failing.
C23_SelectionIsClamped ==
    [][Resolves => (0 <= Idx /\ Idx < Len(Pane) /\ ui'.result # "IndexError")]_vars

\* C24: a Store call that raises while a command is handled is caught by the
\* handler, and the Controller's state is what it was before the command.
C24_StoreErrorsAreCaught ==
    [][(call' # call /\ call'.raised)
          => (ui'.result = "caught" /\ UiState(ui') = UiState(ui))]_vars

\* the texts of the title field that strip to nothing
EmptyTexts == {text \in TitleTexts : Strip(text) = <<>>}

\* C25: OK in the new-task modal with a title that is not empty once stripped,
\* no Store call raising: the task is created by create_in_list when the modal
\* has a list selector and by ensure otherwise, refresh is called and the open
\* selection set to zero, a timer active on another title is stopped at the
\* current time, and the handler ends with the timer active on the new title,
\* started at the same current time, an open task of that title in the cache
\* and the modal closed.
C25_ConfirmCreatesAndStarts ==
    [][/\ (ui.newtask_visible /\ ui.cmd = "none" /\ ui'.cmd = "refresh")
             => /\ call'.op = IF ui.list_widget THEN "create_in_list" ELSE "ensure"
                /\ \E text \in TitleTexts \ EmptyTexts : arg'.title = TitleOf(Strip(text))
                /\ ui'.title = arg'.title
                /\ HasOpen(cache', arg'.title)
       /\ (ui.cmd = "refresh" /\ ui'.cmd # "none")
             => /\ call'.op = "refresh"
                /\ ui'.idx_open = 0
                /\ ui'.title = ui.title
                /\ ui'.cmd = IF timer_active /\ timer_title # ui.title THEN "stop" ELSE "start"
       /\ (ui.key = "confirm" /\ ui.cmd = "stop")
             => /\ call'.op = "stop_timer" /\ arg'.ts = ui.now
                /\ ui'.title = ui.title /\ ui'.now = ui.now
       /\ (ui.key = "confirm" /\ ui.cmd = "start")
             => /\ call'.op = "start_timer" /\ arg' = [title |-> ui.title, ts |-> ui.now]
                /\ timer_active => timer_title = ui.title
                /\ ui'.title = ui.title /\ ui'.now = ui.now
       /\ (ui.key = "confirm" /\ ui.cmd = "starting" /\ ui'.cmd = "none")
             => /\ Timer' = Triple(TRUE, ui.title, ui.now)
                /\ HasOpen(cache', ui.title)
                /\ ui'.idx_open = 0
                /\ ~ui'.newtask_visible
                /\ ui'.result = "done"]_vars

\* the modal was confirmed while a timer ran on another title: that timer was
\* stopped and the one of the new task runs
C25_Witness ==
    /\ ui.key = "confirm" /\ ui.result = "done" /\ ~ui.newtask_visible
    /\ pc = "idle" /\ call.op = "start_timer" /\ prev.op = "stop_timer"
    /\ timer_active /\ HasOpen(cache, timer_title)
    /\ Len(list_open) = 2

\* C26: OK in the new-task modal with a title that is empty once stripped
\* changes neither the Store (the number of open tasks among it) nor the Timer
\* State, and the modal stays visible.
C26_EmptyTitleIsRejected ==
    [][(ui.newtask_visible /\ ui.focused = "button" /\ ui.cmd = "none" /\ ui'.key = "confirm"
          /\ \E text \in EmptyTexts, choice \in SeqToSet(RemoteLists), outcome \in SlotOutcomes :
                Confirm(text, choice, outcome))
          => /\ UNCHANGED StoreState
             /\ Len(list_open') = Len(list_open)
             /\ ui'.newtask_visible
             /\ ui'.cmd = "none"]_vars

\* a title of blanks was refused while the Store held a task and a timer ran
C26_Witness ==
    /\ ui.key = "confirm" /\ ui.result = "rejected"
    /\ ui.newtask_visible /\ ui.focused = "newtask_title_input"
    /\ Len(list_open) = 1 /\ timer_active

\* C27: s on a task whose title has the active timer changes neither the Timer
\* State nor the calendar and calls nothing; on any other task it calls
\* stop_timer with the current time when a timer is active, then start_timer
\* with the title under the selection and the same current time, and the
\* handler ends with the timer active on that title.
C27_StartOnSelection ==
    [][/\ (Shortcut /\ Current = "task" /\ ui'.key = "s")
             => /\ UNCHANGED StoreState
                /\ IF timer_active /\ timer_title = CurrentTask.title
                   THEN ui'.cmd = "none" /\ ui'.result = "nothing"
                   ELSE /\ ui'.title = CurrentTask.title
                        /\ ui'.cmd = IF timer_active THEN "stop" ELSE "start"
       /\ (ui.key = "s" /\ ui.cmd = "stop")
             => /\ call'.op = "stop_timer" /\ arg'.ts = ui.now
                /\ timer_active /\ timer_title # ui.title
       /\ (ui.key = "s" /\ ui.cmd = "start")
             => /\ call'.op = "start_timer" /\ arg' = [title |-> ui.title, ts |-> ui.now]
                /\ ~timer_active
       /\ (ui.key = "s" /\ ui.cmd # "none" /\ ui'.cmd # "none")
             => ui'.title = ui.title /\ ui'.now = ui.now
       /\ (ui.key = "s" /\ ui.cmd = "starting" /\ ui'.cmd = "none")
             => /\ Timer' = Triple(TRUE, ui.title, ui.now)
                /\ ui'.result = "done"]_vars

\* s ended on a task while the timer ran on the other one: the old timer was
\* stopped and the new one runs on the task under the selection
C27_Witness ==
    /\ ui.key = "s" /\ ui.result = "done" /\ ui.cmd = "none" /\ pc = "idle"
    /\ call.op = "start_timer" /\ prev.op = "stop_timer"
    /\ Current = "task" /\ timer_active /\ timer_title = CurrentTask.title

\* C28: d on a task calls delete with the id of the task under the selection,
\* which leaves the cache, and then sets the focused pane's selection index to
\* the greater of zero and the index less one, the other pane's index as it
\* was; no selection index is ever negative, and after the only task of a pane
\* is deleted that pane's index is zero.
C28_DeleteMovesUp ==
    [][/\ ui'.idx_open >= 0 /\ ui'.idx_done >= 0
       /\ (Shortcut /\ Current = "task" /\ ui'.key = "d" /\ ~call'.raised)
             => /\ call'.op = "delete" /\ call'.ret = CurrentTask.id
                /\ \A i \in 1..Len(cache') : cache'[i].id # CurrentTask.id
                /\ Len(cache') = Len(cache) - 1
                /\ ui'.result = "done"
                /\ IF ui.focus_done
                   THEN ui'.idx_done = Max(0, ui.idx_done - 1) /\ ui'.idx_open = ui.idx_open
                   ELSE ui'.idx_open = Max(0, ui.idx_open - 1) /\ ui'.idx_done = ui.idx_done
                /\ ui'.focus_done = ui.focus_done
                /\ Len(Pane) = 1 => (Idx' = 0 /\ Pane' = <<>>)]_vars

\* the only task of the done pane was deleted: the pane is empty and its
\* selection index zero, the open pane still holding the other task
C28_Witness ==
    /\ ui.key = "d" /\ ui.result = "done"
    /\ call.op = "delete" /\ call.ret # NoId /\ ~call.raised
    /\ ui.focus_done /\ filtered_done = <<>> /\ ui.idx_done = 0
    /\ Len(filtered_open) = 1

\* the text of search_input changes in this step
SearchTextChanges == ui'.search_text # ui.search_text

\* C29 as stated: every change of the search text makes filter_text the text
\* of search_input and sets both selection indices to zero.
C29_FilterIsTypedText ==
    [][SearchTextChanges
          => /\ ui'.filter_text = ui'.search_text
             /\ ui'.idx_open = 0 /\ ui'.idx_done = 0]_vars

\* C29, amended: every change of the search text makes filter_text the text of
\* search_input without its leading and trailing blanks and sets both selection
\* indices to zero, so that neither index is past the end of a filtered list
\* that holds a task.
C29_FilterIsStrippedText ==
    [][SearchTextChanges
          => /\ ui'.filter_text = Strip(ui'.search_text)
             /\ ui'.idx_open = 0 /\ ui'.idx_done = 0
             /\ filtered_open' # <<>> => ui'.idx_open < Len(filtered_open')
             /\ filtered_done' # <<>> => ui'.idx_done < Len(filtered_done')
             /\ UNCHANGED StoreState]_vars

\* " A" was typed over two done tasks: the filter is "A", both selections are
\* at the top
C29_Witness ==
    /\ ui.search_visible /\ ui.focused = "search_input"
    /\ ui.search_text = <<" ", "A">> /\ ui.filter_text = <<"A">>
    /\ ui.focus_done /\ Len(filtered_done) = 2
    /\ ui.idx_open = 0 /\ ui.idx_done = 0

\* C30: when the search popup closes it is hidden, the focus is back on the
\* open pane, for the layout and for the Controller alike, and filter_text is
\* what was last typed.
C30_CloseSearchFocusesOpenPane ==
    [][(ui.search_visible /\ ~ui'.search_visible)
          => /\ ui'.focused = "open_win"
             /\ ~ui'.focus_done
             /\ ui'.filter_text = ui.filter_text]_vars

\* C31: up and down change nothing but the selection index of the focused
\* pane, which afterwards is within [0, len - 1] of that pane's filtered view
\* whatever it was before, one past the end also, and change nothing at all
\* when that view is empty.
C31_MoveIsClamped ==
    [][(\E delta \in {-1, 1} : KeyMove(delta))
          => /\ UNCHANGED StoreState
             /\ Pane' = Pane
             /\ UiState(ui') = UiState(SetIdx(ui, Idx'))
             /\ Pane # <<>> => (0 <= Idx' /\ Idx' <= Len(Pane) - 1)
             /\ Pane = <<>> => UiState(ui') = UiState(ui)]_vars

\* the selection is on the second of two open tasks, where only down brings it
C31_Witness ==
    /\ ~ui.focus_done /\ Len(filtered_open) = 2 /\ ui.idx_open = 1
    /\ filtered_done = <<>> /\ ui.idx_done = 0
    /\ ui.cmd = "none"

\* the bg-worker thread is in a tick, between the return of wait() and that of notify()
InTick == thr \in {"rd_active", "rd_title", "rd_started", "notify"}

\* C32: when run_tui returns, after q or with an exception, main calls
\* bg.stop(): main returns, by then the stop event is set and stays set, and
\* from some point on the bg-worker thread has ended and no tick takes place.
C32_CallerStopsScheduler ==
    /\ [](ui.main = "returned" => stop_event)
    /\ (ui.main = "finally") ~> (ui.main = "returned")
    /\ (ui.main = "returned") ~> [](thr = "dead" /\ ~InTick)

\* run_tui raised, main has returned from bg.stop() and the thread has ended
C32_Witness ==
    /\ ui.main = "returned" /\ ui.key = "error"
    /\ stop_event /\ thr = "dead" /\ loops = 0

\* C33: _write_time_slot raises for an end not after the start and inserts
\* nothing: a stop_timer(ended_ts) on GoogleBackend with a timer active and
\* ended_ts <= started leaves the calendar as it was, and no event of the
\* calendar ever has an end that is not after its start.
C33_EndNotAfterStartIsRejected ==
    [][/\ (pc = "idle" /\ call' # call /\ call'.op = "stop_timer"
             /\ kind = "google" /\ timer_active /\ arg'.ts <= timer_started)
             => /\ calendar' = calendar
                /\ call'.slot = "raise"
       /\ \A i \in 1..Len(calendar') : calendar'[i].end > calendar'[i].start]_vars

\* stop_timer returned on GoogleBackend for a timer stopped at the second it
\* was started: nothing is in the calendar and the timer is cleared
C33_Witness ==
    /\ kind = "google" /\ pc = "idle" /\ call.op = "stop_timer"
    /\ call.pre.active /\ call.pre.started > 0 /\ arg.ts = call.pre.started
    /\ call.slot = "raise" /\ calendar = <<>>
    /\ Timer = Cleared

\* the operations of the task contract that mutate the local store
MutatingOps == {"ensure", "toggle", "delete"}

\* C34: on LocalJsonBackend, when ensure, toggle or delete has returned the
\* task document is the cache, content and order, and a refresh called next
\* leaves list_open() and list_done() as they were.
C34_DocumentIsCache ==
    [][/\ (kind = "localjson" /\ TaskOpReturns /\ call'.op \in MutatingOps /\ ~call'.raised)
             => task_file' = TaskDoc(cache')
       /\ (kind = "localjson" /\ call.op \in MutatingOps /\ ~call.raised /\ RefreshCalled)
             => /\ Filter(cache', FALSE) = list_open
                /\ Filter(cache', TRUE) = list_done]_vars

\* a step of one of the pane commands: move, toggle completion, delete, toggle
\* focus, refresh, start timer, stop timer, quit
PaneCommand ==
    \/ MoveKeys
    \/ PaneKeys({"ok"}, {NoFailure})
    \/ KeyQ

\* C35: while the search popup or the new-task modal is visible no pane
\* command changes the Store or the Controller's state, whichever widget of
\* the modal has the focus.
C35_ModalBlocksPaneCommands ==
    [][((ui.search_visible \/ ui.newtask_visible) /\ PaneCommand)
          => (UNCHANGED StoreState /\ UiState(ui') = UiState(ui))]_vars

\* C36: whenever start() returns, after a stop() also and while the thread of
\* the stopped loop is still in its tick, a loop is alive and the stop event is
\* clear, so that the loop's next wait times out into a tick.
C36_StartRestartsLoop ==
    [][StartCalled => (Alive' /\ ~stop_event')]_vars

=============================================================================
